---- MODULE Spec2Model ----
(***************************************************************************)
(* GoldTalk: the GoldSrc handshake session (goldsrc_client.py), the A2S     *)
(* query client (cs16_parser.py) and the session registry (app.py).        *)
(*                                                                         *)
(* Bytes are integers 0..255, a bytes object is a sequence of them, and a   *)
(* Python str is a sequence of code points.                                *)
(***************************************************************************)
EXTENDS Integers, Sequences, FiniteSets, TLC

(***************************************************************************)
(* Bounds of the model.                                                    *)
(***************************************************************************)
\* iterations of one session's read loop (a datagram handled, or a failed
\* sock_recv)
MaxRecv == 3
\* keepalive probes one session sends
MaxProbes == 1

(***************************************************************************)
(* Byte-string helpers (Python bytes / str operations the code uses).       *)
(***************************************************************************)
Min(a, b) == IF a < b THEN a ELSE b
Max(a, b) == IF a > b THEN a ELSE b

\* data[a:b] with 0-based, clipped Python slice bounds (0 <= a)
Slice(data, a, b) ==
    LET hi == Min(b, Len(data))
    IN  IF a >= hi THEN <<>> ELSE SubSeq(data, a + 1, hi)

\* data[a:]
SliceFrom(data, a) == Slice(data, a, Len(data))

\* data.startswith(prefix)
StartsWith(data, prefix) ==
    /\ Len(data) >= Len(prefix)
    /\ SubSeq(data, 1, Len(prefix)) = prefix

\* needle in hay (substring test)
Contains(hay, needle) ==
    \E i \in 0..(Len(hay) - Len(needle)) :
        SubSeq(hay, i + 1, i + Len(needle)) = needle

\* content.split(sep) with an explicit one-byte separator: empty pieces are kept
RECURSIVE SplitFrom(_, _, _, _)
SplitFrom(s, sep, i, cur) ==
    IF i > Len(s) THEN <<cur>>
    ELSE IF s[i] = sep THEN <<cur>> \o SplitFrom(s, sep, i + 1, <<>>)
    ELSE SplitFrom(s, sep, i + 1, Append(cur, s[i]))

Split(s, sep) == SplitFrom(s, sep, 1, <<>>)

\* the bytes int() strips: space, \t, \n, \v, \f, \r
IsSpace(b) == b = 32 \/ (b >= 9 /\ b <= 13)
IsDigit(b) == b >= 48 /\ b <= 57

RECURSIVE LStrip(_)
LStrip(s) == IF s # <<>> /\ IsSpace(Head(s)) THEN LStrip(Tail(s)) ELSE s

RECURSIVE RStrip(_)
RStrip(s) ==
    IF s # <<>> /\ IsSpace(s[Len(s)]) THEN RStrip(SubSeq(s, 1, Len(s) - 1)) ELSE s

\* digits with single underscores between them, as int() accepts
DigitsOk(ds) ==
    /\ ds # <<>>
    /\ IsDigit(ds[1]) /\ IsDigit(ds[Len(ds)])
    /\ \A i \in 1..Len(ds) : IsDigit(ds[i]) \/ ds[i] = 95
    /\ \A i \in 1..(Len(ds) - 1) : ~(ds[i] = 95 /\ ds[i + 1] = 95)

RECURSIVE DigitsVal(_, _)
DigitsVal(ds, acc) ==
    IF ds = <<>> THEN acc
    ELSE IF Head(ds) = 95 THEN DigitsVal(Tail(ds), acc)
    ELSE DigitsVal(Tail(ds), acc * 10 + (Head(ds) - 48))

\* an int() that takes every token for 0 and never raises
ParseInt_NeverRaises(token) == [ok |-> TRUE, val |-> 0]

\* int(token) for a bytes token: [ok |-> FALSE] stands for ValueError
ParseInt(token) ==
    LET t == RStrip(LStrip(token))
        signed == t # <<>> /\ (t[1] = 45 \/ t[1] = 43)
        ds == IF signed THEN Tail(t) ELSE t
    IN  IF DigitsOk(ds)
        THEN [ok |-> TRUE,
              val |-> IF signed /\ t[1] = 45 THEN 0 - DigitsVal(ds, 0)
                      ELSE DigitsVal(ds, 0)]
        ELSE [ok |-> FALSE, val |-> 0]

\* str(n) of an int, as an f-string formats it
RECURSIVE NatToStr(_)
NatToStr(n) ==
    IF n < 10 THEN <<48 + n>> ELSE NatToStr(n \div 10) \o <<48 + (n % 10)>>

IntToStr(n) == IF n < 0 THEN <<45>> \o NatToStr(0 - n) ELSE NatToStr(n)

\* s.encode('ascii'): [ok |-> FALSE] stands for UnicodeEncodeError
EncodeAscii(s) ==
    IF \A i \in 1..Len(s) : s[i] < 128
    THEN [ok |-> TRUE, bytes |-> s]
    ELSE [ok |-> FALSE, bytes |-> <<>>]

(***************************************************************************)
(* Literals of goldsrc_client.py.                                          *)
(***************************************************************************)
PROTO_VERSION == 48

\* b'\xff\xff\xff\xff'
MARKER == <<255, 255, 255, 255>>

\* b'\xff\xff\xff\xffgetchallenge steam\n'
GETCHALLENGE ==
    <<255, 255, 255, 255, 103, 101, 116, 99, 104, 97, 108, 108, 101, 110,
      103, 101, 32, 115, 116, 101, 97, 109, 10>>

\* b'\xff\xff\xff\xffnew'
CMD_NEW ==
    <<255, 255, 255, 255, 110, 101, 119>>

\* b'\xff\xff\xff\xffjointeam 1'
CMD_JOINTEAM ==
    <<255, 255, 255, 255, 106, 111, 105, 110, 116, 101, 97, 109, 32, 49>>

\* b'\xff\xff\xff\xffjoinclass 1'
CMD_JOINCLASS ==
    <<255, 255, 255, 255, 106, 111, 105, 110, 99, 108, 97, 115, 115, 32, 49>>

\* b'\xff\xff\xff\xff+left'
CMD_LEFT ==
    <<255, 255, 255, 255, 43, 108, 101, 102, 116>>

\* b'\xff\xff\xff\xfftime'
CMD_TIME ==
    <<255, 255, 255, 255, 116, 105, 109, 101>>

\* 'connect '
STR_CONNECT ==
    <<99, 111, 110, 110, 101, 99, 116, 32>>

\* auth_info: \prot\3\unique\-1\raw\steam\cdkey\c8fe91a668eb0265b3bc52cf12dccf31
AUTH_INFO ==
    <<92, 112, 114, 111, 116, 92, 51, 92, 117, 110, 105, 113, 117, 101, 92,
      45, 49, 92, 114, 97, 119, 92, 115, 116, 101, 97, 109, 92, 99, 100,
      107, 101, 121, 92, 99, 56, 102, 101, 57, 49, 97, 54, 54, 56, 101, 98,
      48, 50, 54, 53, 98, 51, 98, 99, 53, 50, 99, 102, 49, 50, 100, 99, 99,
      102, 51, 49>>

\* user_info up to the nickname: \name\
USER_INFO_HEAD ==
    <<92, 110, 97, 109, 101, 92>>

\* user_info after the nickname:
\* \model\gordon\topcolor\30\bottomcolor\6\rate\100000\cl_updaterate\102
\* \cl_lw\1\cl_lc\1\cl_dlmax\512\_vgui_menus\1\_ah\1\_cl_autowepswitch\1
\* \can_voice_record\1
USER_INFO_TAIL ==
    <<92, 109, 111, 100, 101, 108, 92, 103, 111, 114, 100, 111, 110, 92,
      116, 111, 112, 99, 111, 108, 111, 114, 92, 51, 48, 92, 98, 111, 116,
      116, 111, 109, 99, 111, 108, 111, 114, 92, 54, 92, 114, 97, 116, 101,
      92, 49, 48, 48, 48, 48, 48, 92, 99, 108, 95, 117, 112, 100, 97, 116,
      101, 114, 97, 116, 101, 92, 49, 48, 50, 92, 99, 108, 95, 108, 119, 92,
      49, 92, 99, 108, 95, 108, 99, 92, 49, 92, 99, 108, 95, 100, 108, 109,
      97, 120, 92, 53, 49, 50, 92, 95, 118, 103, 117, 105, 95, 109, 101,
      110, 117, 115, 92, 49, 92, 95, 97, 104, 92, 49, 92, 95, 99, 108, 95,
      97, 117, 116, 111, 119, 101, 112, 115, 119, 105, 116, 99, 104, 92, 49,
      92, 99, 97, 110, 95, 118, 111, 105, 99, 101, 95, 114, 101, 99, 111,
      114, 100, 92, 49>>

(***************************************************************************)
(* Inbound datagrams the read loop is fed (the remote server's side).       *)
(***************************************************************************)
\* S2C_CHALLENGE 'A00000000 123456 3 1m'
PKT_CHALLENGE ==
    <<255, 255, 255, 255, 65, 48, 48, 48, 48, 48, 48, 48, 48, 32, 49, 50,
      51, 52, 53, 54, 32, 51, 32, 49, 109>>

\* a second S2C_CHALLENGE 'A00000000 77 2'
PKT_CHALLENGE2 ==
    <<255, 255, 255, 255, 65, 48, 48, 48, 48, 48, 48, 48, 48, 32, 55, 55,
      32, 50>>

\* S2C_CHALLENGE without a second token
PKT_CHALLENGE_NOTOKEN ==
    <<255, 255, 255, 255, 65, 48, 48, 48, 48, 48, 48, 48, 48>>

\* S2C_CHALLENGE whose second token is not an integer: 'A00000000 12x4 3'
PKT_CHALLENGE_BADINT ==
    <<255, 255, 255, 255, 65, 48, 48, 48, 48, 48, 48, 48, 48, 32, 49, 50,
      120, 52, 32, 51>>

\* S2C_CONNREJECT 'BServer is full.\n'
PKT_REJECT ==
    <<255, 255, 255, 255, 66, 83, 101, 114, 118, 101, 114, 32, 105, 115, 32,
      102, 117, 108, 108, 46, 10>>

\* S2C_STUFFTEXT '9ping'
PKT_STUFF ==
    <<255, 255, 255, 255, 57, 112, 105, 110, 103>>

\* the bare 4-byte marker
PKT_MARKER_ONLY ==
    <<255, 255, 255, 255>>

\* a network-channel packet: sequence, ack, then 'Bob : hi'
PKT_NETCHAN ==
    <<1, 0, 0, 0, 0, 0, 0, 128, 66, 111, 98, 32, 58, 32, 104, 105>>

\* a 3-byte packet without the marker
PKT_NETCHAN_SHORT ==
    <<1, 0, 0>>

\* a 5-byte packet without the marker
PKT_NETCHAN5 ==
    <<2, 0, 0, 0, 0>>

InboundPackets ==
    { PKT_CHALLENGE, PKT_CHALLENGE2, PKT_CHALLENGE_NOTOKEN, PKT_CHALLENGE_BADINT,
      PKT_REJECT, PKT_STUFF, PKT_MARKER_ONLY,
      PKT_NETCHAN, PKT_NETCHAN_SHORT, PKT_NETCHAN5 }

\* nicknames a web client may submit: 'Bo' and the Cyrillic 'Ия'
NICK_ASCII == <<66, 111>>
NICK_CYRILLIC == <<1048, 1103>>
Nicknames == { NICK_ASCII, NICK_CYRILLIC }

(***************************************************************************)
(* CS16ServerParser (cs16_parser.py): the A2S_INFO decoder.                 *)
(***************************************************************************)
\* longest raw (unstructured) response the query is fed
MaxRawLen == 6
\* latest value of the clock datetime.now() reads
MaxClock == 1

\* the default endpoint of a session
PORT == 27015

\* '127.0.0.1'
HOST ==
    <<49, 50, 55, 46, 48, 46, 48, 46, 49>>

\* A2S_INFO = b'\xFF\xFF\xFF\xFFTSource Engine Query\x00'
A2S_INFO ==
    <<255, 255, 255, 255, 84, 83, 111, 117, 114, 99, 101, 32, 69, 110, 103,
      105, 110, 101, 32, 81, 117, 101, 114, 121, 0>>

\* Python values whose type varies at run time: an int, or a str
PyInt(n) == [t |-> "int", v |-> n]
PyStr(str) == [t |-> "str", v |-> str]

\* 'N/A'
NA == PyStr(<<78, 47, 65>>)

\* what a call returns: a dict, None, or an exception that leaves it
RetDict(d, order) == [ret |-> "dict", dict |-> d, consumed |-> order]
RetNone == [ret |-> "None"]
RetRaise == [ret |-> "raise"]

\* except Exception: return None
Caught(r) == IF r.ret = "raise" THEN RetNone ELSE r

\* a continuation byte of UTF-8 at 1-based index i of bs, within [lo, hi]
ContIn(bs, i, lo, hi) == i <= Len(bs) /\ bs[i] >= lo /\ bs[i] <= hi

\* the number of bytes the UTF-8 sequence led by b takes (0: not a lead byte)
Utf8Need(b) ==
    IF b < 128 THEN 1
    ELSE IF b >= 194 /\ b <= 223 THEN 2
    ELSE IF b >= 224 /\ b <= 239 THEN 3
    ELSE IF b >= 240 /\ b <= 244 THEN 4
    ELSE 0

\* the range the second byte of a sequence led by b must lie in
Utf8SecondLo(b) == IF b = 224 THEN 160 ELSE IF b = 240 THEN 144 ELSE 128
Utf8SecondHi(b) == IF b = 237 THEN 159 ELSE IF b = 244 THEN 143 ELSE 191

\* how many bytes of the sequence at i are well-formed so far (the lead counts)
Utf8Good(bs, i) ==
    LET b == bs[i]
        n == Utf8Need(b)
    IN  IF n <= 1 THEN n
        ELSE IF ~ContIn(bs, i + 1, Utf8SecondLo(b), Utf8SecondHi(b)) THEN 1
        ELSE IF n = 2 THEN 2
        ELSE IF ~ContIn(bs, i + 2, 128, 191) THEN 2
        ELSE IF n = 3 THEN 3
        ELSE IF ~ContIn(bs, i + 3, 128, 191) THEN 3
        ELSE 4

\* the code point of the well-formed n-byte sequence at i
Utf8Point(bs, i, n) ==
    IF n = 1 THEN bs[i]
    ELSE IF n = 2 THEN (bs[i] - 192) * 64 + (bs[i + 1] - 128)
    ELSE IF n = 3
    THEN (bs[i] - 224) * 4096 + (bs[i + 1] - 128) * 64 + (bs[i + 2] - 128)
    ELSE (bs[i] - 240) * 262144 + (bs[i + 1] - 128) * 4096
             + (bs[i + 2] - 128) * 64 + (bs[i + 3] - 128)

\* bs.decode('utf-8', errors='ignore'): ill-formed bytes are dropped
RECURSIVE Utf8From(_, _)
Utf8From(bs, i) ==
    IF i > Len(bs) THEN <<>>
    ELSE LET n == Utf8Need(bs[i])
             g == Utf8Good(bs, i)
         IN  IF n > 0 /\ g = n
             THEN <<Utf8Point(bs, i, n)>> \o Utf8From(bs, i + n)
             ELSE Utf8From(bs, i + Max(g, 1))

DecodeUtf8Ignore(bs) == Utf8From(bs, 1)

\* data.find(b'\x00', pos): the 0-based index of the first zero byte at or
\* after pos, or -1
Find0(data, pos) ==
    LET hits == {i \in pos..(Len(data) - 1) : data[i + 1] = 0}
    IN  IF hits = {} THEN 0 - 1
        ELSE CHOOSE i \in hits : \A j \in hits : i <= j

\* what read_string returns when the buffer holds no terminator
Unterminated(data, pos) == [str |-> <<>>, pos |-> Len(data)]

\* read_string(data, pos) -> (str, next pos)
read_string(data, pos) ==
    LET end == Find0(data, pos)
    IN  IF end = 0 - 1
        THEN Unterminated(data, pos)
        ELSE [str |-> DecodeUtf8Ignore(Slice(data, pos, end)), pos |-> end + 1]

\* edf & flag, for a one-bit flag
HasFlag(edf, flag) == (edf \div flag) % 2 = 1

\* the flags tested highest bit first
EdfOrder_HighestFirst == <<128, 64, 32, 16, 1>>

\* the order in which _parse_a2s_info tests the Extra Data Flags:
\* 0x80 port, 0x10 SteamID, 0x40 SourceTV, 0x20 keywords, 0x01 GameID
EdfOrder == <<128, 16, 64, 32, 1>>

\* the optional fields with the SteamID left where it is
ConsumeField_KeepsSteamID(response, flag, st) ==
    IF flag = 128
    THEN [st EXCEPT !.offset = @ + 2, !.consumed = Append(@, flag)]
    ELSE IF flag = 16
    THEN [st EXCEPT !.consumed = Append(@, flag)]
    ELSE IF flag = 1
    THEN [st EXCEPT !.offset = @ + 8, !.consumed = Append(@, flag)]
    ELSE IF flag = 64
    THEN [st EXCEPT !.offset = read_string(response, st.offset + 2).pos,
                    !.consumed = Append(@, flag)]
    ELSE LET r == read_string(response, st.offset)
         IN  [st EXCEPT !.offset = r.pos, !.keywords = r.str,
                        !.consumed = Append(@, flag)]

\* one optional field: st is [offset, keywords, consumed]
ConsumeField(response, flag, st) ==
    IF flag = 128
    THEN [st EXCEPT !.offset = @ + 2, !.consumed = Append(@, flag)]
    ELSE IF flag = 16 \/ flag = 1
    THEN [st EXCEPT !.offset = @ + 8, !.consumed = Append(@, flag)]
    ELSE IF flag = 64
    THEN [st EXCEPT !.offset = read_string(response, st.offset + 2).pos,
                    !.consumed = Append(@, flag)]
    ELSE LET r == read_string(response, st.offset)
         IN  [st EXCEPT !.offset = r.pos, !.keywords = r.str,
                        !.consumed = Append(@, flag)]

\* the chain of "if edf & flag:" blocks, in the order of EdfOrder
RECURSIVE ConsumeOptional(_, _, _, _)
ConsumeOptional(response, edf, flags, st) ==
    IF flags = <<>> THEN st
    ELSE ConsumeOptional(response, edf, Tail(flags),
             IF HasFlag(edf, Head(flags))
             THEN ConsumeField(response, Head(flags), st)
             ELSE st)

\* response[i] if i < len(response) else dflt
ByteOr(response, i, dflt) == IF i < Len(response) THEN response[i + 1] ELSE dflt

\* a truncation test that only notices an exhausted buffer
IsTruncated_AtEnd(offset, n) == offset + 1 > n

\* if offset + 6 > len(response): the partial record is returned
IsTruncated(offset, n) == offset + 6 > n

\* the difference without its floor
free_slots_Unclamped(max_players, players) == max_players - players

\* 'free_slots': max(0, max_players - players)
free_slots(max_players, players) == Max(0, max_players - players)

\* the body of _parse_a2s_info's try block
parse_a2s_info_body(response, host, port, now) ==
    IF 4 >= Len(response) \/ response[5] # 73 THEN RetNone
    ELSE IF 5 >= Len(response) THEN RetNone
    ELSE
    LET protocol == response[6]
        s1 == read_string(response, 6)
        s2 == read_string(response, s1.pos)
        s3 == read_string(response, s2.pos)
        s4 == read_string(response, s3.pos)
        offset == s4.pos
    IN  IF IsTruncated(offset, Len(response))
        THEN RetDict([host |-> host, port |-> port, protocol |-> protocol,
                      name |-> s1.str, map |-> s2.str, game_dir |-> s3.str,
                      game_name |-> s4.str, players |-> NA, max_players |-> NA,
                      bots |-> NA, timestamp |-> now], <<>>)
        ELSE IF offset + 5 > Len(response)
        THEN RetRaise  \* struct.error / IndexError on the fixed fields
        ELSE
        LET appid == response[offset + 1] + 256 * response[offset + 2]
            players == response[offset + 3]
            max_players == response[offset + 4]
            bots == response[offset + 5]
            server_type == ByteOr(response, offset + 5, 63)
            environment == ByteOr(response, offset + 6, 63)
            visibility == ByteOr(response, offset + 7, 0)
            vac == ByteOr(response, offset + 8, 0)
            ver == read_string(response, offset + 9)
            edf == ByteOr(response, ver.pos, 0)
            opt == ConsumeOptional(response, edf, EdfOrder,
                       [offset |-> ver.pos + 1, keywords |-> <<>>,
                        consumed |-> <<>>])
        IN  RetDict([host |-> host, port |-> port, protocol |-> protocol,
                     name |-> s1.str, map |-> s2.str, game_dir |-> s3.str,
                     game_name |-> s4.str, appid |-> appid,
                     players |-> PyInt(players),
                     max_players |-> PyInt(max_players),
                     bots |-> PyInt(bots),
                     free_slots |-> free_slots(max_players, players),
                     timestamp |-> now,
                     server_type |-> <<server_type>>,
                     environment |-> <<environment>>,
                     secure |-> vac # 0, password |-> visibility # 0,
                     version |-> ver.str, tags |-> opt.keywords],
                    opt.consumed)

\* def _parse_a2s_info(self, response, host, port)
parse_a2s_info(response, host, port, now) ==
    Caught(parse_a2s_info_body(response, host, port, now))

\* the header check without its marker test
HeaderRejected_LengthOnly(response) == Len(response) < 6

\* if len(response) < 6 or response[:4] != b'\xFF\xFF\xFF\xFF': return None
HeaderRejected(response) ==
    Len(response) < 6 \/ Slice(response, 0, 4) # MARKER

\* what query_server_info returns once recvfrom has returned response
query_server_info_result(response, host, port, now) ==
    Caught(IF HeaderRejected(response) THEN RetNone
           ELSE parse_a2s_info(response, host, port, now))

(***************************************************************************)
(* A2S_INFO responses the query is fed (the remote server's side).          *)
(***************************************************************************)
\* 'Test Server'
STR_TEST_SERVER ==
    <<84, 101, 115, 116, 32, 83, 101, 114, 118, 101, 114>>

\* 'Сер' in UTF-8, then a stray 0xFF
STR_CYRILLIC_BAD ==
    <<208, 161, 208, 181, 209, 128, 255>>

\* 'de_dust2'
STR_DE_DUST2 ==
    <<100, 101, 95, 100, 117, 115, 116, 50>>

\* 'cstrike'
STR_CSTRIKE ==
    <<99, 115, 116, 114, 105, 107, 101>>

\* 'Counter-Strike'
STR_COUNTER_STRIKE ==
    <<67, 111, 117, 110, 116, 101, 114, 45, 83, 116, 114, 105, 107, 101>>

\* '1.1.2.7'
STR_VERSION ==
    <<49, 46, 49, 46, 50, 46, 55>>

\* 'aim,hs'
STR_KEYWORDS ==
    <<97, 105, 109, 44, 104, 115>>

\* 'tv'
STR_TV ==
    <<116, 118>>

\* a non-zero 64-bit SteamID and GameID, little-endian
STEAMID == <<1, 2, 3, 4, 5, 6, 7, 8>>
GAMEID == <<10, 0, 0, 0, 0, 0, 0, 0>>

\* the server of the end-to-end scenario: 5 of 16 players, no optional field
BaseServer ==
    [protocol |-> 48, name |-> STR_TEST_SERVER, map |-> STR_DE_DUST2,
     game_dir |-> STR_CSTRIKE, game_name |-> STR_COUNTER_STRIKE,
     appid |-> <<10, 0>>, players |-> 5, max_players |-> 16, bots |-> 0,
     server_type |-> 100, environment |-> 108, visibility |-> 0, vac |-> 1,
     version |-> STR_VERSION, edf |-> 0]

\* the optional fields a server appends for its flags, in wire order
WireOptional(edf) ==
    (IF HasFlag(edf, 128) THEN <<135, 105>> ELSE <<>>)
    \o (IF HasFlag(edf, 16) THEN STEAMID ELSE <<>>)
    \o (IF HasFlag(edf, 64) THEN <<44, 105>> \o STR_TV \o <<0>> ELSE <<>>)
    \o (IF HasFlag(edf, 32) THEN STR_KEYWORDS \o <<0>> ELSE <<>>)
    \o (IF HasFlag(edf, 1) THEN GAMEID ELSE <<>>)

\* the A2S_INFO response of server sv
WireInfo(sv) ==
    MARKER \o <<73, sv.protocol>>
    \o sv.name \o <<0>> \o sv.map \o <<0>>
    \o sv.game_dir \o <<0>> \o sv.game_name \o <<0>>
    \o sv.appid \o <<sv.players, sv.max_players, sv.bots>>
    \o <<sv.server_type, sv.environment, sv.visibility, sv.vac>>
    \o sv.version \o <<0>> \o <<sv.edf>> \o WireOptional(sv.edf)

Servers ==
    {[BaseServer EXCEPT !.edf = e] : e \in 0..255}
    \cup {[BaseServer EXCEPT !.players = c[1], !.max_players = c[2]] :
             c \in {<<16, 5>>, <<0, 0>>, <<255, 32>>}}
    \cup {[BaseServer EXCEPT !.name = STR_CYRILLIC_BAD, !.edf = 32]}

\* every response of a server, and every truncation of it
WireResponses ==
    UNION { {SubSeq(WireInfo(sv), 1, n) : n \in 0..Len(WireInfo(sv))} :
            sv \in Servers }

\* every short datagram over a few telling bytes
RawBytes == {0, 73, 255}
RawResponses == UNION { [1..n -> RawBytes] : n \in 0..MaxRawLen }

InfoResponses == WireResponses \cup RawResponses

(***************************************************************************)
(* CS16ServerParser._parse_a2s_players and its helpers.                     *)
(***************************************************************************)
\* struct.unpack('<i', b)[0]: a signed 32-bit little-endian integer
Int32LE(b) ==
    LET low == (b[4] % 128) * 16777216 + b[3] * 65536 + b[2] * 256 + b[1]
    IN  IF b[4] >= 128 THEN (low - 1073741824) - 1073741824 ELSE low

RECURSIVE Pow2(_)
Pow2(n) == IF n = 0 THEN 1 ELSE 2 * Pow2(n - 1)

\* struct.unpack('<f', b)[0]: an IEEE 754 single, kept exactly as
\* (-1)^neg * m * 2^e.  kind is "zero", "num" (magnitude from 2^-7 up to,
\* not including, 2^27), "nan" (NaN and the infinities) or "far" (any other
\* magnitude, which the integers of the model do not hold: its bit fields
\* are kept as they are)
Float32LE(b) ==
    LET neg == b[4] >= 128
        ex == (b[4] % 128) * 2 + (b[3] \div 128)
        frac == (b[3] % 128) * 65536 + b[2] * 256 + b[1]
    IN  IF ex = 255 THEN [kind |-> "nan", neg |-> neg, m |-> 0, e |-> 0]
        ELSE IF ex = 0 /\ frac = 0
        THEN [kind |-> "zero", neg |-> neg, m |-> 0, e |-> 0]
        ELSE IF ex < 120 \/ ex > 153
        THEN [kind |-> "far", neg |-> neg, m |-> frac, e |-> ex]
        ELSE [kind |-> "num", neg |-> neg, m |-> frac + 8388608, e |-> ex - 150]

\* floor(x * k) of a float x, for k = 1 or 10
FloorTimes(x, k) ==
    LET n == x.m * k
        q == IF x.e >= 0 THEN n * Pow2(x.e) ELSE n \div Pow2(0 - x.e)
        exact == x.e >= 0 \/ n % Pow2(0 - x.e) = 0
    IN  IF x.kind = "zero" THEN 0
        ELSE IF ~x.neg THEN q
        ELSE IF exact THEN 0 - q ELSE 0 - q - 1

\* round(x, 1), in tenths: the nearest tenth, a tie going to the even one
RoundTenths(x) ==
    LET n == x.m * 10
        d == Pow2(0 - x.e)
        q == n \div d
        r == n % d
        up == 2 * r > d \/ (2 * r = d /\ q % 2 = 1)
        mag == IF x.e >= 0 THEN n * Pow2(x.e) ELSE IF up THEN q + 1 ELSE q
    IN  IF x.kind = "zero" THEN 0 ELSE IF x.neg THEN 0 - mag ELSE mag

\* f"{n:02d}" of a non-negative int
TwoDigits(n) == IF n < 10 THEN <<48>> \o NatToStr(n) ELSE NatToStr(n)

\* def _format_time(self, seconds), for seconds whose floor is fl
FormatFloor(fl) ==
    LET hours == fl \div 3600
        minutes == (fl % 3600) \div 60
        secs == fl % 60
    IN  IF hours > 0
        THEN IntToStr(hours) \o <<58>> \o TwoDigits(minutes) \o <<58>>
             \o TwoDigits(secs)
        ELSE IntToStr(minutes) \o <<58>> \o TwoDigits(secs)

\* _format_time of a finite float
format_time(x) == FormatFloor(FloorTimes(x, 1))

\* round(time_played, 1) and self._format_time(time_played) as record fields
TimeSeconds(x) ==
    IF x.kind = "far" THEN [far |-> x] ELSE [tenths |-> RoundTenths(x)]
TimeFormatted(x) ==
    IF x.kind = "far" THEN [far |-> x] ELSE [str |-> format_time(x)]

\* the records the loop of _parse_a2s_players appends from offset on, with
\* left iterations to go; raised when int() of a NaN or an infinity raises
RECURSIVE ParsePlayersFrom(_, _, _)
ParsePlayersFrom(response, offset, left) ==
    IF left = 0 \/ offset >= Len(response)
    THEN [raised |-> FALSE, players |-> <<>>]
    ELSE
    LET index == response[offset + 1]
        end == Find0(response, offset + 1)
    IN  IF end = 0 - 1 \/ end + 1 + 8 > Len(response)
        THEN [raised |-> FALSE, players |-> <<>>]
        ELSE
        LET name == DecodeUtf8Ignore(Slice(response, offset + 1, end))
            score == Int32LE(Slice(response, end + 1, end + 5))
            time_played == Float32LE(Slice(response, end + 5, end + 9))
        IN  IF time_played.kind = "nan"
            THEN [raised |-> TRUE, players |-> <<>>]
            ELSE
            LET rest == ParsePlayersFrom(response, end + 9, left - 1)
            IN  [raised |-> rest.raised,
                 players |->
                    <<[index |-> index, name |-> name, score |-> score,
                       time_seconds |-> TimeSeconds(time_played),
                       time_formatted |-> TimeFormatted(time_played),
                       source |-> "A2S"]>> \o rest.players]

\* a type check that knows the current type byte only
NotPlayerList_CurrentOnly(response) == response[5] # 85

\* if response[4] != 0x55 and response[4] != 0x44: return []
NotPlayerList(response) == response[5] # 85 /\ response[5] # 68

\* def _parse_a2s_players(self, response): the list it returns
parse_a2s_players(response) ==
    IF Len(response) < 5 THEN <<>>          \* IndexError, except: return []
    ELSE IF NotPlayerList(response) THEN <<>>
    ELSE IF 5 >= Len(response) THEN <<>>
    ELSE LET r == ParsePlayersFrom(response, 6, response[6])
         IN  IF r.raised THEN <<>> ELSE r.players

(***************************************************************************)
(* State.                                                                  *)
(***************************************************************************)
VARIABLES
    \* GoldSrcClient fields
    nickname,          \* self.nickname
    sock,              \* self.sock: "open" | "failed" (a local socket failure:
                       \* send and recv raise from then on) | "closed"
    is_connected,      \* self.is_connected
    challenge,         \* self.challenge
    connection_step,   \* self.connection_step
    read_task,         \* self.read_task: "none" | "running" | "cancelled"
    keep_alive_task,   \* self.keep_alive_task: "none" | "running" | "cancelled"
    \* the event loop and the wire, as far as this session touches them
    connect_pc,        \* the connect() coroutine: "scheduled" | "done"
    timers,            \* pending loop.call_later(..., self.send_packet, data)
    out,               \* every sock.send(data) of send_packet, in order
    logs,              \* logger.error / logger.warning calls, counted by kind
    chat_task,         \* the last handle_packet created an on_chat_message task
    \* history
    last_in,           \* the datagram handle_packet was last called with
    challenge_stored,  \* self.challenge has been assigned by handle_packet
    netchan_again,     \* a network-channel packet was handled while connected
    nrecv,             \* iterations of read_loop so far
    \* one query_server_info call
    q_pc,              \* "idle" | "sent" | "done"
    q_sock,            \* the call's socket: "none" | "open" | "closed"
    q_event,           \* how the call went: "none" | "send_error" | "timeout" | "data"
    q_resp,            \* the datagram recvfrom returned
    q_result,          \* what the call returned
    \* one query_server_players_a2s call
    p_pc,              \* "off" | "idle" | "wait1" | "wait2" | "final" | "done"
    p_sock,            \* the call's socket: "none" | "open" | "closed"
    p_challenge,       \* the local challenge: None, or the bytes kept
    p_sent,            \* every datagram given to sendto, in order
    p_recv,            \* how every recvfrom went, in order
    p_result,          \* what the call returned
    \* one query_server_full call
    f_pc,              \* "off" | "info" | "a2s" | "api" | "web" | "done"
    f_info,            \* server_info, what query_server_info returned
    f_trace,           \* the player sources consulted, each with what it gave
    f_players,         \* players, what query_server_players_advanced returned
    f_result,          \* what the call returned
    \* _parse_a2s_info applied again and again to one response
    d_resp,            \* the response bytes
    d_clock,           \* datetime.now(), in ticks
    d_results,         \* what every decode returned, in order
    \* app.py: the registry, the sessions and pollers join_game created
    sio_sids,          \* the web clients socket.io holds a connection for
    clients,           \* clients: sid -> the number of its GoldSrcClient, 0
                       \* when sid is not a key
    gs_clients,        \* every GoldSrcClient created, in order of creation
    pollers,           \* every poll_players_task created, in order, each
                       \* with the data of its latest pass
    emitted            \* the sio.emit calls of the latest handler or poller
                       \* pass that emitted, in order

hvars ==
    <<nickname, sock, is_connected, challenge, connection_step, read_task,
      keep_alive_task, connect_pc, timers, out, logs, chat_task, last_in,
      challenge_stored, netchan_again, nrecv>>

qvars == <<q_pc, q_sock, q_event, q_resp, q_result>>

pvars == <<p_pc, p_sock, p_challenge, p_sent, p_recv, p_result>>

fvars == <<f_pc, f_info, f_trace, f_players, f_result>>

dvars == <<d_resp, d_clock, d_results>>

avars == <<sio_sids, clients, gs_clients, pollers, emitted>>

vars == <<hvars, qvars, pvars, fvars, dvars, avars>>

\* what an action of the handshake session leaves alone
NotSession == <<qvars, pvars, fvars, dvars, avars>>

\* what an action of the info query leaves alone
NotInfoQuery == <<hvars, pvars, fvars, dvars, avars>>

\* what an action of the player query leaves alone
NotPlayers == <<hvars, qvars, fvars, dvars, avars>>

\* what a step of query_server_full outside the player query leaves alone
NotFull ==
    <<hvars, qvars, p_sock, p_challenge, p_sent, p_recv, p_result, dvars,
      avars>>

(***************************************************************************)
(* GoldSrcClient (goldsrc_client.py).                                      *)
(***************************************************************************)
LogKinds == {"send_error", "read_error", "challenge_error", "rejected"}

Bump(l, kind) == [l EXCEPT ![kind] = @ + 1]

\* sock.send(data) raises unless the socket is open and healthy
SendOk(s) == s = "open"

\* send_packet(data): the send is recorded with the socket's state; a send
\* that raises is logged and swallowed
send_packet_out(o, s, data) ==
    Append(o, [data |-> data, sock |-> s, wire |-> SendOk(s)])

send_packet_logs(l, s) == IF SendOk(s) THEN l ELSE Bump(l, "send_error")

\* the command string perform_connect formats (the second definition of
\* perform_connect is the one the class keeps)
connect_cmd(nick, ch) ==
    STR_CONNECT \o IntToStr(PROTO_VERSION) \o <<32>> \o IntToStr(ch)
        \o <<32, 34>> \o AUTH_INFO
        \o <<34, 32, 34>> \o USER_INFO_HEAD \o nick \o USER_INFO_TAIL \o <<34>>

\* perform_connect's packet: cmd.encode('ascii') behind the marker
connect_packet(nick, ch) ==
    LET e == EncodeAscii(connect_cmd(nick, ch))
    IN  [ok |-> e.ok, bytes |-> MARKER \o e.bytes]

\* a length guard that asks for the 8-byte network-channel header
TooShort_NeedsHeader(data) == Len(data) < 9

\* handle_packet's first line: if len(data) < 5: return
TooShort(data) == Len(data) < 5

\* data.startswith(b'\xff\xff\xff\xff')
IsConnectionless(data) == StartsWith(data, MARKER)

\* the guard dropped: every network-channel packet sends 'new'
NeedsNew_Always(conn) == TRUE

\* if not self.is_connected:
NeedsNew(conn) == ~conn

\* c.isprintable() for a latin-1 code point
IsPrintable(c) ==
    \/ (c >= 32 /\ c <= 126)
    \/ (c >= 161 /\ c <= 255 /\ c # 173)

\* the chat heuristic of handle_packet: TRUE when a chat task is created
ChatHeuristic(data) ==
    LET clean == SelectSeq(data, IsPrintable)
    IN  /\ Len(clean) > 5
        /\ \/ Contains(clean, <<67, 111, 110, 115, 111, 108, 101>>)
           \/ Contains(clean, <<32, 58>>)

\* the three commands send_new schedules, in deadline order (+1.0, +1.5, +2.0)
ScheduledCommands == <<CMD_JOINTEAM, CMD_JOINCLASS, CMD_LEFT>>

\* what close() does to a task handle: a task that exists is cancelled
Cancelled(task) == IF task = "none" THEN "none" ELSE "cancelled"

\* what close() does to the call_later handles: it does not touch them
TimersAfterClose(ts) == ts

HInit ==
    /\ nickname \in Nicknames
    /\ sock = "open"
    /\ is_connected = FALSE
    /\ challenge = 0
    /\ connection_step = 0
    /\ read_task = "none"
    /\ keep_alive_task = "none"
    /\ connect_pc = "scheduled"
    /\ timers = <<>>
    /\ out = <<>>
    /\ logs = [k \in LogKinds |-> 0]
    /\ chat_task = FALSE
    /\ last_in = <<>>
    /\ challenge_stored = FALSE
    /\ netchan_again = FALSE
    /\ nrecv = 0

\* async def connect(self)
connect ==
    /\ connect_pc = "scheduled"
    /\ out' = send_packet_out(out, sock, GETCHALLENGE)
    /\ logs' = send_packet_logs(logs, sock)
    /\ read_task' = "running"
    /\ keep_alive_task' = "running"
    /\ connect_pc' = "done"
    /\ UNCHANGED <<nickname, sock, is_connected, challenge, connection_step,
                   timers, chat_task, last_in, challenge_stored,
                   nrecv>>
    /\ UNCHANGED netchan_again
    /\ UNCHANGED NotSession

\* the S2C_CHALLENGE branch of handle_packet
handle_challenge(content) ==
    LET parts == Split(content, 32)
    IN  IF Len(parts) > 1
        THEN LET r == ParseInt(parts[2])
                 p == connect_packet(nickname, r.val)
             IN  IF ~r.ok
                 THEN \* int() raised: caught and logged
                      /\ logs' = Bump(logs, "challenge_error")
                      /\ UNCHANGED <<challenge, challenge_stored, out>>
                 ELSE /\ challenge' = r.val
                      /\ challenge_stored' = TRUE
                      /\ IF p.ok
                         THEN /\ out' = send_packet_out(out, sock, p.bytes)
                              /\ logs' = send_packet_logs(logs, sock)
                         ELSE \* encode('ascii') raised: caught and logged
                              /\ logs' = Bump(logs, "challenge_error")
                              /\ out' = out
        ELSE UNCHANGED <<challenge, challenge_stored, out, logs>>

\* the connectionless branch of handle_packet
handle_connectionless(data) ==
    LET payload == SliceFrom(data, 4)
        header == Slice(payload, 0, 1)
        content == SliceFrom(payload, 1)
    IN  /\ IF header = <<65>>
           THEN handle_challenge(content)
           ELSE IF header = <<66>>
           THEN /\ logs' = Bump(logs, "rejected")
                /\ UNCHANGED <<challenge, challenge_stored, out>>
           ELSE UNCHANGED <<challenge, challenge_stored, out, logs>>
        /\ UNCHANGED <<is_connected, connection_step, timers, chat_task,
                       netchan_again>>

\* the network-channel branch of handle_packet
handle_netchan(data) ==
    /\ chat_task' = ChatHeuristic(data)
    /\ IF NeedsNew(is_connected)
       THEN /\ is_connected' = TRUE
            /\ connection_step' = 2
            \* send_new
            /\ out' = send_packet_out(out, sock, CMD_NEW)
            /\ logs' = send_packet_logs(logs, sock)
            /\ timers' = timers \o ScheduledCommands
            /\ UNCHANGED netchan_again
       ELSE /\ netchan_again' = TRUE
            /\ UNCHANGED <<is_connected, connection_step, out, logs, timers>>
    /\ UNCHANGED <<challenge, challenge_stored>>

\* def handle_packet(self, data)
handle_data(data) ==
    /\ last_in' = data
    /\ IF TooShort(data)
       THEN UNCHANGED <<is_connected, challenge, connection_step, timers,
                        out, logs, chat_task, challenge_stored,
                        netchan_again>>
       ELSE IF IsConnectionless(data)
       THEN handle_connectionless(data)
       ELSE handle_netchan(data)

\* one iteration of read_loop whose sock_recv returns data: handle_packet(data)
handle_packet ==
    /\ read_task = "running"
    /\ sock = "open"
    /\ nrecv < MaxRecv
    /\ \E data \in InboundPackets : handle_data(data)
    /\ nrecv' = nrecv + 1
    /\ UNCHANGED <<nickname, sock, read_task, keep_alive_task, connect_pc>>
    /\ UNCHANGED NotSession

\* one iteration of read_loop whose sock_recv raises: logged, sleep(0.1), again
read_error ==
    /\ read_task = "running"
    /\ sock # "open"
    /\ nrecv < MaxRecv
    /\ logs' = Bump(logs, "read_error")
    /\ nrecv' = nrecv + 1
    /\ UNCHANGED <<nickname, sock, is_connected, challenge, connection_step,
                   read_task, keep_alive_task, connect_pc, timers, out,
                   chat_task, last_in, challenge_stored>>
    /\ UNCHANGED netchan_again
    /\ UNCHANGED NotSession

\* the keepalive probes sent so far
Probes(o) == Len(SelectSeq(o, LAMBDA e : e.data = CMD_TIME))

\* one iteration of keep_alive
keep_alive ==
    /\ keep_alive_task = "running"
    /\ is_connected => Probes(out) < MaxProbes
    /\ IF is_connected
       THEN /\ out' = send_packet_out(out, sock, CMD_TIME)
            /\ logs' = send_packet_logs(logs, sock)
       ELSE UNCHANGED <<out, logs>>
    /\ UNCHANGED <<nickname, sock, is_connected, challenge, connection_step,
                   read_task, keep_alive_task, connect_pc, timers, chat_task,
                   last_in, challenge_stored, nrecv>>
    /\ UNCHANGED netchan_again
    /\ UNCHANGED NotSession

\* a call_later deadline of send_new passes: send_packet(data)
timer_fire ==
    /\ timers # <<>>
    /\ out' = send_packet_out(out, sock, Head(timers))
    /\ logs' = send_packet_logs(logs, sock)
    /\ timers' = Tail(timers)
    /\ UNCHANGED <<nickname, sock, is_connected, challenge, connection_step,
                   read_task, keep_alive_task, connect_pc, chat_task, last_in,
                   challenge_stored, nrecv>>
    /\ UNCHANGED netchan_again
    /\ UNCHANGED NotSession

\* the operating system fails the session's socket (the interface goes away,
\* the descriptor is invalidated): a local socket failure
socket_failure ==
    /\ sock = "open"
    /\ sock' = "failed"
    /\ UNCHANGED <<nickname, is_connected, challenge, connection_step, read_task,
                   keep_alive_task, connect_pc, timers, out, logs, chat_task,
                   last_in, challenge_stored, nrecv>>
    /\ UNCHANGED netchan_again
    /\ UNCHANGED NotSession

\* def close(self)
close ==
    /\ is_connected' = FALSE
    /\ read_task' = Cancelled(read_task)
    /\ keep_alive_task' = Cancelled(keep_alive_task)
    /\ timers' = TimersAfterClose(timers)
    /\ sock' = "closed"
    /\ UNCHANGED <<nickname, challenge, connection_step, connect_pc, out, logs,
                   chat_task, last_in, challenge_stored, nrecv>>
    /\ UNCHANGED netchan_again
    /\ UNCHANGED NotSession

\* the info query at rest, while the session runs
QIdle ==
    /\ q_pc = "idle"
    /\ q_sock = "none"
    /\ q_event = "none"
    /\ q_resp = <<>>
    /\ q_result = [ret |-> "pending"]

\* no player query is running
NoChallenge == [t |-> "None"]
POff ==
    /\ p_pc = "off"
    /\ p_sock = "none"
    /\ p_challenge = NoChallenge
    /\ p_sent = <<>>
    /\ p_recv = <<>>
    /\ p_result = [ret |-> "pending"]

\* no full query is running
FOff ==
    /\ f_pc = "off"
    /\ f_info = [ret |-> "pending"]
    /\ f_trace = <<>>
    /\ f_players = [t |-> "None"]
    /\ f_result = [ret |-> "pending"]

\* no decode is under way
DOff ==
    /\ d_resp = <<>>
    /\ d_clock = 0
    /\ d_results = <<>>

\* the web application is not running
AOff ==
    /\ sio_sids = {}
    /\ clients = <<>>
    /\ gs_clients = <<>>
    /\ pollers = <<>>
    /\ emitted = <<>>

Init == HInit /\ QIdle /\ POff /\ FOff /\ DOff /\ AOff

Next ==
    \/ connect
    \/ handle_packet
    \/ read_error
    \/ keep_alive
    \/ timer_fire
    \/ socket_failure
    \/ close

Spec == Init /\ [][Next]_vars

(***************************************************************************)
(* GoldSrcClient.perform_connect, reached the way the class reaches it: the *)
(* session asks for a challenge and the server answers.  The nickname is   *)
(* whatever string the web client submitted.                               *)
(***************************************************************************)
\* 'Player' (the default of join_game), 'a\b', 'a"b', 'a b'
NICK_DEFAULT == <<80, 108, 97, 121, 101, 114>>
NICK_BACKSLASH == <<97, 92, 98>>
NICK_QUOTE == <<97, 34, 98>>
NICK_SPACE == <<97, 32, 98>>

ConnectNicknames ==
    Nicknames \cup {NICK_DEFAULT, NICK_BACKSLASH, NICK_QUOTE, NICK_SPACE, <<>>}

\* challenge numbers a server hands out
ConnectChallenges == {0, 7, 77, 123456, 0 - 5}

\* S2C_CHALLENGE 'A00000000 <challenge> 3'
ChallengeReply(ch) ==
    MARKER \o <<65, 48, 48, 48, 48, 48, 48, 48, 48, 32>> \o IntToStr(ch)
        \o <<32, 51>>

\* one iteration of read_loop whose sock_recv returns an S2C_CHALLENGE
challenge_reply ==
    /\ read_task = "running"
    /\ sock = "open"
    /\ nrecv < MaxRecv
    /\ \E ch \in ConnectChallenges : handle_data(ChallengeReply(ch))
    /\ nrecv' = nrecv + 1
    /\ UNCHANGED <<nickname, sock, read_task, keep_alive_task, connect_pc>>
    /\ UNCHANGED NotSession

InitConnect ==
    /\ nickname \in ConnectNicknames
    /\ sock = "open"
    /\ is_connected = FALSE
    /\ challenge = 0
    /\ connection_step = 0
    /\ read_task = "none"
    /\ keep_alive_task = "none"
    /\ connect_pc = "scheduled"
    /\ timers = <<>>
    /\ out = <<>>
    /\ logs = [k \in LogKinds |-> 0]
    /\ chat_task = FALSE
    /\ last_in = <<>>
    /\ challenge_stored = FALSE
    /\ netchan_again = FALSE
    /\ nrecv = 0
    /\ QIdle /\ POff /\ FOff /\ DOff /\ AOff

NextConnect ==
    \/ connect
    \/ challenge_reply

SpecConnect == InitConnect /\ [][NextConnect]_vars

(***************************************************************************)
(* CS16ServerParser.query_server_info, one call.                           *)
(***************************************************************************)
\* the session at rest, while a query runs
HIdle == HInit /\ nickname = NICK_ASCII

\* socket.socket(...); settimeout; sendto(A2S_INFO)
info_send ==
    /\ q_pc = "idle"
    /\ q_pc' = "sent"
    /\ q_sock' = "open"
    /\ UNCHANGED <<q_event, q_resp, q_result>>
    /\ UNCHANGED NotInfoQuery

\* sendto raises (the host does not resolve, the network is unreachable):
\* except Exception: return None
info_send_error ==
    /\ q_pc = "idle"
    /\ q_pc' = "done"
    /\ q_sock' = "open"
    /\ q_event' = "send_error"
    /\ q_result' = RetNone
    /\ UNCHANGED q_resp
    /\ UNCHANGED NotInfoQuery

\* recvfrom raises socket.timeout: return None
info_timeout ==
    /\ q_pc = "sent"
    /\ q_pc' = "done"
    /\ q_event' = "timeout"
    /\ q_result' = RetNone
    /\ UNCHANGED <<q_sock, q_resp>>
    /\ UNCHANGED NotInfoQuery

\* recvfrom returns a datagram: sock.close(), the header check, the decoder
info_recv ==
    /\ q_pc = "sent"
    /\ \E response \in InfoResponses, now \in 0..MaxClock :
        /\ q_resp' = response
        /\ q_result' = query_server_info_result(response, HOST, PORT, now)
    /\ q_sock' = "closed"
    /\ q_event' = "data"
    /\ q_pc' = "done"
    /\ UNCHANGED NotInfoQuery

InitInfo == HIdle /\ QIdle /\ POff /\ FOff /\ DOff /\ AOff

NextInfo ==
    \/ info_send
    \/ info_send_error
    \/ info_timeout
    \/ info_recv

SpecInfo == InitInfo /\ [][NextInfo]_vars

(***************************************************************************)
(* CS16ServerParser._parse_a2s_info, applied repeatedly to one well-formed *)
(* response while the wall clock runs.                                     *)
(***************************************************************************)
MaxDecodes == 2

\* the complete responses of the servers
WellFormedResponses == {WireInfo(sv) : sv \in Servers}

\* self._parse_a2s_info(response, host, port)
decode ==
    /\ Len(d_results) < MaxDecodes
    /\ d_results' =
         Append(d_results, parse_a2s_info(d_resp, HOST, PORT, d_clock))
    /\ UNCHANGED <<d_resp, d_clock>>
    /\ UNCHANGED <<hvars, qvars, pvars, fvars, avars>>

\* time passes between two calls
tick ==
    /\ d_clock < MaxClock
    /\ d_clock' = d_clock + 1
    /\ UNCHANGED <<d_resp, d_results>>
    /\ UNCHANGED <<hvars, qvars, pvars, fvars, avars>>

InitDecode ==
    /\ HIdle /\ QIdle /\ POff /\ FOff /\ AOff
    /\ d_resp \in WellFormedResponses
    /\ d_clock = 0
    /\ d_results = <<>>

NextDecode ==
    \/ decode
    \/ tick

SpecDecode == InitDecode /\ [][NextDecode]_vars

(***************************************************************************)
(* CS16ServerParser.query_server_players_a2s, one call.                     *)
(***************************************************************************)
\* A2S_PLAYER = b'\xFF\xFF\xFF\xFFU'
A2S_PLAYER == <<255, 255, 255, 255, 85>>

\* b'\xFF\xFF\xFF\xFF\x55\xFF\xFF\xFF\xFF'
REQ_CHALLENGE == <<255, 255, 255, 255, 85, 255, 255, 255, 255>>

\* b'\xFF\xFF\xFF\xFF\x57'
REQ_CHALLENGE_OLD == <<255, 255, 255, 255, 87>>

\* len(response) >= 5 and response[:4] == marker and response[4] == 0x41
IsChallenge(response) ==
    Len(response) >= 5 /\ Slice(response, 0, 4) = MARKER /\ response[5] = 65

\* the token cut one byte early, type byte included
ChallengeAfter_FromTypeByte(ch, response) ==
    IF IsChallenge(response)
    THEN [t |-> "bytes", v |-> Slice(response, 4, 8)]
    ELSE ch

\* challenge after a reply: challenge = response[5:9] if the check passes
ChallengeAfter(ch, response) ==
    IF IsChallenge(response)
    THEN [t |-> "bytes", v |-> Slice(response, 5, 9)]
    ELSE ch

\* "if challenge:" - neither None nor b''
HasChallenge(ch) == ch.t = "bytes" /\ ch.v # <<>>

\* the check on the final reply: marker, and type 0x55 or 0x44
AcceptsFinal(response) ==
    /\ Len(response) >= 5
    /\ Slice(response, 0, 4) = MARKER
    /\ (response[5] = 85 \/ response[5] = 68)

\* what the call returns
PlayerList(l) == [ret |-> "list", list |-> l]

\* the outer handler left out
CaughtPlayers_Propagates(r) == r

\* except Exception as e: ... return []
CaughtPlayers(r) == IF r.ret = "raise" THEN PlayerList(<<>>) ELSE r

\* replies of the remote server to a challenge request
TOKEN_A == <<17, 34, 51, 68>>
TOKEN_B == <<0, 0, 0, 9>>
CH_A == MARKER \o <<65>> \o TOKEN_A
CH_B_LONG == MARKER \o <<65>> \o TOKEN_B \o <<10>>
CH_SHORT == MARKER \o <<65, 7>>
CH_EMPTY == MARKER \o <<65>>

\* player lists: Bob (score 7, 123.5 s) and 'Ия' (score -1, 3725.25 s)
PLAYERS_BODY ==
    <<2, 0, 66, 111, 98, 0, 7, 0, 0, 0, 0, 0, 247, 66,
      1, 208, 152, 209, 143, 0, 255, 255, 255, 255, 0, 212, 104, 69>>
PL_LEGACY == MARKER \o <<68>> \o PLAYERS_BODY
PL_CURRENT == MARKER \o <<85>> \o PLAYERS_BODY
PL_NONE == MARKER \o <<68, 0>>
PL_CUT == SubSeq(PL_LEGACY, 1, 25)
PL_NAN == MARKER \o <<68, 1, 0, 66, 0, 1, 0, 0, 0, 0, 0, 192, 127>>
PL_OTHER == MARKER \o <<69>> \o PLAYERS_BODY
PL_NOMARK == <<254, 255, 255, 255, 68>> \o PLAYERS_BODY

ChallengeReplies == {CH_A, CH_B_LONG, CH_SHORT, CH_EMPTY, PL_LEGACY, <<>>}
FinalReplies ==
    {PL_LEGACY, PL_CURRENT, PL_NONE, PL_CUT, PL_NAN, PL_OTHER, PL_NOMARK,
     CH_A, <<>>}

\* how a recvfrom can go: socket.timeout, another OSError, or a datagram
Timeout == [kind |-> "timeout"]
OsError == [kind |-> "error"]
Datagram(d) == [kind |-> "data", data |-> d]
RecvOutcomes(replies) == {Timeout, OsError} \cup {Datagram(d) : d \in replies}

\* a player query is about to start
PIdle ==
    /\ p_pc = "idle"
    /\ p_sock = "none"
    /\ p_challenge = NoChallenge
    /\ p_sent = <<>>
    /\ p_recv = <<>>
    /\ p_result = [ret |-> "pending"]

\* socket(); settimeout(); challenge = None; sendto(0x55 request)
players_start ==
    /\ p_pc = "idle"
    /\ p_sock' = "open"
    /\ p_sent' = <<REQ_CHALLENGE>>
    /\ p_pc' = "wait1"
    /\ UNCHANGED <<p_challenge, p_recv, p_result>>
    /\ UNCHANGED NotPlayers

\* the first sendto raises (the host does not resolve): the outer except
\* returns [] and the socket is left as it is
players_send_error ==
    /\ p_pc = "idle"
    /\ p_sock' = "open"
    /\ p_recv' = <<OsError>>
    /\ p_result' = CaughtPlayers(RetRaise)
    /\ p_pc' = "done"
    /\ UNCHANGED <<p_challenge, p_sent>>
    /\ UNCHANGED NotPlayers

\* the rest of the call once challenge ch is settled: the A2S_PLAYER request
\* if there is a challenge, else close and return []
AfterChallenge(ch) ==
    IF HasChallenge(ch)
    THEN /\ p_sent' = Append(p_sent, A2S_PLAYER \o ch.v)
         /\ p_pc' = "final"
         /\ UNCHANGED <<p_sock, p_result>>
    ELSE /\ p_sock' = "closed"
         /\ p_result' = PlayerList(<<>>)
         /\ p_pc' = "done"
         /\ UNCHANGED p_sent

\* a recvfrom raises something other than socket.timeout
RecvRaises ==
    /\ p_result' = CaughtPlayers(RetRaise)
    /\ p_pc' = "done"
    /\ UNCHANGED <<p_challenge, p_sock, p_sent>>

\* attempt 1: recvfrom returns or times out; then attempt 2 is sent if there
\* is no challenge, else the A2S_PLAYER request
players_recv1 ==
    /\ p_pc = "wait1"
    /\ \E ev \in RecvOutcomes(ChallengeReplies) :
        /\ p_recv' = Append(p_recv, ev)
        /\ IF ev.kind = "error" THEN RecvRaises
           ELSE LET ch == IF ev.kind = "data"
                          THEN ChallengeAfter(p_challenge, ev.data)
                          ELSE p_challenge
                IN  /\ p_challenge' = ch
                    /\ IF ~HasChallenge(ch)
                       THEN /\ p_sent' = Append(p_sent, REQ_CHALLENGE_OLD)
                            /\ p_pc' = "wait2"
                            /\ UNCHANGED <<p_sock, p_result>>
                       ELSE AfterChallenge(ch)
    /\ UNCHANGED NotPlayers

\* attempt 2: recvfrom returns or times out
players_recv2 ==
    /\ p_pc = "wait2"
    /\ \E ev \in RecvOutcomes(ChallengeReplies) :
        /\ p_recv' = Append(p_recv, ev)
        /\ IF ev.kind = "error" THEN RecvRaises
           ELSE LET ch == IF ev.kind = "data"
                          THEN ChallengeAfter(p_challenge, ev.data)
                          ELSE p_challenge
                IN  /\ p_challenge' = ch
                    /\ AfterChallenge(ch)
    /\ UNCHANGED NotPlayers

\* the final recvfrom: an accepted reply is parsed and returned at once (no
\* close); a timeout or another reply goes on to sock.close(); return []
players_recv_final ==
    /\ p_pc = "final"
    /\ \E ev \in RecvOutcomes(FinalReplies) :
        /\ p_recv' = Append(p_recv, ev)
        /\ IF ev.kind = "error" THEN RecvRaises
           ELSE IF ev.kind = "data" /\ AcceptsFinal(ev.data)
           THEN /\ p_result' = PlayerList(parse_a2s_players(ev.data))
                /\ p_pc' = "done"
                /\ UNCHANGED <<p_challenge, p_sock, p_sent>>
           ELSE /\ p_sock' = "closed"
                /\ p_result' = PlayerList(<<>>)
                /\ p_pc' = "done"
                /\ UNCHANGED <<p_challenge, p_sent>>
    /\ UNCHANGED NotPlayers

InitPlayers == HIdle /\ QIdle /\ PIdle /\ FOff /\ DOff /\ AOff

NextPlayers ==
    \/ players_start
    \/ players_send_error
    \/ players_recv1
    \/ players_recv2
    \/ players_recv_final

SpecPlayers == InitPlayers /\ [][NextPlayers]_vars

(***************************************************************************)
(* CS16ServerParser.query_server_full and the player fallback chain         *)
(* (query_server_players_advanced, _api, _web, _parse_html_players).        *)
(***************************************************************************)
\* further Python values: a list, a dict (a function on its keys), None
PyList(l) == [t |-> "list", v |-> l]
PyDict(d) == [t |-> "dict", v |-> d]
PyNone == [t |-> "None"]

\* a chain that never stops at a source
Truthy_Never(v) == FALSE

\* bool(v), as "if players:" takes it
Truthy(v) ==
    CASE v.t = "list" -> v.v # <<>>
      [] v.t = "str" -> v.v # <<>>
      [] v.t = "dict" -> DOMAIN v.v # {}
      [] v.t = "int" -> v.v # 0
      [] OTHER -> FALSE

\* len(v): [ok |-> FALSE] stands for TypeError
PyLen(v) ==
    CASE v.t = "list" -> [ok |-> TRUE, n |-> Len(v.v)]
      [] v.t = "str" -> [ok |-> TRUE, n |-> Len(v.v)]
      [] v.t = "dict" -> [ok |-> TRUE, n |-> Cardinality(DOMAIN v.v)]
      [] OTHER -> [ok |-> FALSE, n |-> 0]

\* d.get(key, dflt)
Get(d, key, dflt) == IF key \in DOMAIN d THEN d[key] ELSE dflt

\* 'Unknown', 'Name', 'N/A' is NA
STR_UNKNOWN == <<85, 110, 107, 110, 111, 119, 110>>
STR_NAME == <<78, 97, 109, 101>>

\* query_server_players_api: http is how urlopen and json.loads went.  Any
\* exception (no answer, no JSON, a value of the wrong type) gives []
api_players(http) ==
    IF http.kind # "json" THEN <<>>
    ELSE IF http.value.t # "dict" \/ "players" \notin DOMAIN http.value.v
    THEN <<>>
    ELSE
    LET ps == http.value.v.players
        time(pl) == Get(pl.v, "time", PyInt(0))
    IN  IF ps.t # "list" THEN <<>>
        ELSE IF \E i \in DOMAIN ps.v :
                   ps.v[i].t # "dict" \/ time(ps.v[i]).t # "int"
        THEN <<>>
        ELSE [i \in DOMAIN ps.v |->
                [name |-> Get(ps.v[i].v, "name", PyStr(STR_UNKNOWN)),
                 score |-> Get(ps.v[i].v, "score", PyInt(0)),
                 time_seconds |-> time(ps.v[i]),
                 time_formatted |-> PyStr(FormatFloor(time(ps.v[i]).v)),
                 source |-> "GameTracker"]]

\* _parse_html_players, from the cells re.findall found in each table row
RECURSIVE parse_html_players(_)
parse_html_players(rows) ==
    IF rows = <<>> THEN <<>>
    ELSE
    LET cells == Head(rows)
        name == LStrip(RStrip(cells[1]))
        n == ParseInt(cells[2])
        rest == parse_html_players(Tail(rows))
    IN  IF Len(cells) >= 3 /\ name # <<>> /\ name # STR_NAME
        THEN <<[name |-> PyStr(name),
                score |-> PyInt(IF n.ok THEN n.val ELSE 0),
                time_formatted |-> NA, source |-> "Web"]>> \o rest
        ELSE rest

\* query_server_players_web from URL i on: outs[i] is how urls[i] went
RECURSIVE WebFrom(_, _)
WebFrom(outs, i) ==
    IF i > Len(outs) THEN PyList(<<>>)
    ELSE
    LET o == outs[i]
        html == parse_html_players(o.rows)
    IN  IF o.kind = "error" THEN WebFrom(outs, i + 1)
        ELSE IF o.kind = "json"
        THEN IF o.value.t = "list" THEN o.value
             ELSE IF o.value.t = "dict" /\ "players" \in DOMAIN o.value.v
             THEN o.value.v.players
             ELSE WebFrom(outs, i + 1)
        ELSE IF html # <<>> THEN PyList(html)
        ELSE WebFrom(outs, i + 1)

\* the four urls of query_server_players_web
NUM_URLS == 4

\* what the HTTP sources can answer
HttpError == [kind |-> "error"]
Json(v) == [kind |-> "json", value |-> v]
Html(rows) == [kind |-> "html", rows |-> rows]

\* 'Eve', 'Zed', ' Bob ', '5', 'x', '-'
ApiOutcomes ==
    { HttpError,
      Json(PyList(<<>>)),
      Json(PyDict([players |-> PyList(<<>>)])),
      Json(PyDict([players |-> PyList(<<PyDict([name |-> PyStr(<<69, 118, 101>>),
                                                 score |-> PyInt(3),
                                                 time |-> PyInt(65)])>>)])) }
WebOutcomes ==
    { HttpError,
      Json(PyDict([status |-> PyInt(1)])),
      Json(PyList(<<PyDict([name |-> PyStr(<<90, 101, 100>>)])>>)),
      Json(PyList(<<PyStr(<<90, 101, 100>>)>>)),
      Json(PyDict([players |-> PyInt(12)])),
      Html(<< <<STR_NAME, <<83>>, <<84>>>>,
              << <<32, 66, 111, 98, 32>>, <<53>>, <<45>> >>,
              << <<65, 108>>, <<120>>, <<45>> >> >>) }

\* the replies to the A2S_INFO probe inside a full query
FullInfoOutcomes ==
    { Timeout, Datagram(<<>>), Datagram(WireInfo(BaseServer)),
      Datagram(SubSeq(WireInfo(BaseServer), 1, 50)) }

\* a full query is about to start
FIdle ==
    /\ f_pc = "info"
    /\ f_info = [ret |-> "pending"]
    /\ f_trace = <<>>
    /\ f_players = PyNone
    /\ f_result = [ret |-> "pending"]

\* server_info = self.query_server_info(host, port); if not server_info:
\* return None; else query_server_players_advanced starts with the A2S query
full_info ==
    /\ f_pc = "info"
    /\ \E ev \in FullInfoOutcomes, now \in 0..MaxClock :
        LET info == IF ev.kind = "data"
                    THEN query_server_info_result(ev.data, HOST, PORT, now)
                    ELSE RetNone
        IN  /\ f_info' = info
            /\ IF info = RetNone
               THEN f_pc' = "done" /\ f_result' = RetNone /\ UNCHANGED p_pc
               ELSE f_pc' = "a2s" /\ p_pc' = "idle" /\ UNCHANGED f_result
    /\ UNCHANGED <<f_trace, f_players>>
    /\ UNCHANGED NotFull

\* query_server_players_advanced returns players; query_server_full attaches
\* them: server_info['players_list'] = players;
\* server_info['online_players'] = len(players); return server_info
full_result(info, players) ==
    IF PyLen(players).ok
    THEN [ret |-> "dict",
          dict |-> ("players_list" :> players
                    @@ "online_players" :> PyLen(players).n)
                   @@ info.dict]
    ELSE RetRaise

Returns(players) ==
    /\ f_players' = players
    /\ f_pc' = "done"
    /\ f_result' = full_result(f_info, players)

\* source src gave players: "if players: return players", else go on to next
Consulted(src, players, next) ==
    /\ f_trace' = Append(f_trace, [src |-> src, value |-> players])
    /\ IF Truthy(players) THEN Returns(players)
       ELSE IF next = "done" THEN Returns(PyList(<<>>))
       ELSE f_pc' = next /\ UNCHANGED <<f_players, f_result>>

\* players = self.query_server_players_a2s(host, port) has returned
advanced_a2s ==
    /\ f_pc = "a2s"
    /\ p_pc = "done"
    /\ Consulted("A2S", PyList(p_result.list), "api")
    /\ UNCHANGED <<f_info, p_pc>>
    /\ UNCHANGED NotFull

\* players = self.query_server_players_api(host, port)
advanced_api ==
    /\ f_pc = "api"
    /\ \E http \in ApiOutcomes :
        Consulted("API", PyList(api_players(http)), "web")
    /\ UNCHANGED <<f_info, p_pc>>
    /\ UNCHANGED NotFull

\* players = self.query_server_players_web(host, port)
advanced_web ==
    /\ f_pc = "web"
    /\ \E outs \in [1..NUM_URLS -> WebOutcomes] :
        Consulted("Web", WebFrom(outs, 1), "done")
    /\ UNCHANGED <<f_info, p_pc>>
    /\ UNCHANGED NotFull

InitFull == HIdle /\ QIdle /\ POff /\ FIdle /\ DOff /\ AOff

NextFull ==
    \/ full_info
    \/ players_start
    \/ players_send_error
    \/ players_recv1
    \/ players_recv2
    \/ players_recv_final
    \/ advanced_a2s
    \/ advanced_api
    \/ advanced_web

SpecFull == InitFull /\ [][NextFull]_vars

(***************************************************************************)
(* app.py: join_game, disconnect and the poll_players_task coroutines.     *)
(* socket.io delivers the events of a sid between its connect and its      *)
(* disconnect; a coroutine gives way to the others at its awaits only.     *)
(***************************************************************************)
MaxJoins == 2
MaxTicks == 2

Sids == {"s1", "s2"}

\* sid in clients
Registered(sid, reg) == reg[sid] # 0

\* a loop that never looks at the registry
LoopCondition_Forever(sid, reg) == TRUE

\* while target_sid in clients:
LoopCondition(sid, reg) == Registered(sid, reg)

\* what parser.query_server_full can hand to the poller: None when the info
\* probe fails, else the record with what the player sources gave attached
PlayerOutcomes ==
    {PyList(<<>>), PyList(parse_a2s_players(PL_CURRENT))}
    \cup {WebFrom(<<o>>, 1) : o \in WebOutcomes}
PollOutcomes ==
    {RetNone}
    \cup {full_result(query_server_info_result(WireInfo(BaseServer), HOST,
                                                PORT, 0), pl) :
             pl \in PlayerOutcomes}

\* p.get raises AttributeError unless p is a dict
IsDict(p) == "t" \in DOMAIN p => p.t = "dict"

\* {"name": p.get('name', 'Unknown'), "score": p.get('score', 0), "time": 0}
frontend_player(p) ==
    IF "t" \in DOMAIN p
    THEN [name |-> Get(p.v, "name", PyStr(STR_UNKNOWN)),
          score |-> Get(p.v, "score", PyInt(0)), time |-> PyInt(0)]
    ELSE IF p.source = "A2S"
    THEN [name |-> PyStr(p.name), score |-> PyInt(p.score), time |-> PyInt(0)]
    ELSE [name |-> p.name, score |-> p.score, time |-> PyInt(0)]

\* the loop that builds frontend_players: it raises at the first p that is
\* not a dict
frontend_players(players) ==
    IF players.t = "list" /\ \A i \in DOMAIN players.v : IsDict(players.v[i])
    THEN [ok |-> TRUE,
          list |-> [i \in DOMAIN players.v |-> frontend_player(players.v[i])]]
    ELSE [ok |-> FALSE, list |-> <<>>]

\* await sio.emit(event, payload, room=sid), by the handler of join number
\* by (pass 0) or by pass number pass of poller by
Emit(sid, event, payload, by, pass) ==
    [sid |-> sid, event |-> event, payload |-> payload, by |-> by,
     pass |-> pass]

\* what pass n of poller i emits for data in its try block
Published(sid, data, i, n) ==
    IF data.ret # "dict" THEN <<>>     \* None, or the query raised
    ELSE
    LET info == IF "name" \in DOMAIN data.dict
                THEN <<Emit(sid, "server_info", PyDict(data.dict), i, n)>>
                ELSE <<>>
        fp == frontend_players(data.dict.players_list)
    IN  IF "players_list" \notin DOMAIN data.dict THEN info
        ELSE IF ~fp.ok THEN info       \* except Exception: logged
        ELSE info
             \o <<Emit(sid, "player_list_update", PyList(fp.list), i, n),
                  Emit(sid, "chat_message",
                       PyInt(Len(data.dict.players_list.v)), i, n)>>

\* async def join_game(sid, data)
join_game(sid) ==
    /\ sid \in sio_sids
    /\ Len(gs_clients) < MaxJoins
    /\ gs_clients' =
         Append(gs_clients,
                [sid |-> sid, sock |-> "open", is_connected |-> FALSE,
                 read_task |-> "none", keep_alive_task |-> "none",
                 connect_pc |-> "scheduled"])
    /\ clients' = [clients EXCEPT ![sid] = Len(gs_clients) + 1]
    /\ pollers' = Append(pollers, [sid |-> sid, pc |-> "loop", ticks |-> 0,
                                   data |-> [ret |-> "pending"]])
    /\ emitted' = <<Emit(sid, "chat_message", PyInt(0), Len(gs_clients) + 1, 0)>>
    /\ UNCHANGED sio_sids

\* the task created for gs_client.connect() runs: GoldSrcClient.connect
client_connect(c) ==
    /\ c \in DOMAIN gs_clients
    /\ gs_clients[c].connect_pc = "scheduled"
    /\ gs_clients' = [gs_clients EXCEPT ![c].read_task = "running",
                                        ![c].keep_alive_task = "running",
                                        ![c].connect_pc = "done"]
    /\ UNCHANGED <<sio_sids, clients, pollers, emitted>>

\* async def disconnect(sid): clients[sid].close(); del clients[sid]
disconnect(sid) ==
    /\ sid \in sio_sids
    /\ sio_sids' = sio_sids \ {sid}
    /\ IF Registered(sid, clients)
       THEN /\ gs_clients' =
                 [gs_clients EXCEPT
                    ![clients[sid]].is_connected = FALSE,
                    ![clients[sid]].read_task = Cancelled(@),
                    ![clients[sid]].keep_alive_task = Cancelled(@),
                    ![clients[sid]].sock = "closed"]
            /\ clients' = [clients EXCEPT ![sid] = 0]
       ELSE UNCHANGED <<gs_clients, clients>>
    /\ UNCHANGED <<pollers, emitted>>

\* the passes all pollers have started
RECURSIVE TicksOf(_)
TicksOf(ps) == IF ps = <<>> THEN 0 ELSE Head(ps).ticks + TicksOf(Tail(ps))

\* while target_sid in clients: ... await asyncio.to_thread(query_server_full)
poll_check(i) ==
    /\ i \in DOMAIN pollers
    /\ pollers[i].pc = "loop"
    /\ IF LoopCondition(pollers[i].sid, clients)
       THEN /\ TicksOf(pollers) < MaxTicks
            /\ pollers' = [pollers EXCEPT ![i].pc = "query",
                                          ![i].ticks = @ + 1]
       ELSE pollers' = [pollers EXCEPT ![i].pc = "stopped"]
    /\ UNCHANGED <<sio_sids, clients, gs_clients, emitted>>

\* query_server_full returns or raises; the rest of the try block, up to
\* await asyncio.sleep(5)
poll_return(i) ==
    /\ i \in DOMAIN pollers
    /\ pollers[i].pc = "query"
    /\ \E data \in PollOutcomes :
        LET batch == Published(pollers[i].sid, data, i, pollers[i].ticks)
        IN  /\ emitted' = IF batch = <<>> THEN emitted ELSE batch
            /\ pollers' = [pollers EXCEPT ![i].pc = "sleep", ![i].data = data]
    /\ UNCHANGED <<sio_sids, clients, gs_clients>>

\* asyncio.sleep(5) is over
poll_wake(i) ==
    /\ i \in DOMAIN pollers
    /\ pollers[i].pc = "sleep"
    /\ pollers' = [pollers EXCEPT ![i].pc = "loop"]
    /\ UNCHANGED <<sio_sids, clients, gs_clients, emitted>>

NotApp == <<hvars, qvars, pvars, fvars, dvars>>

InitApp ==
    /\ HIdle /\ QIdle /\ POff /\ FOff /\ DOff
    /\ sio_sids = Sids
    /\ clients = [sid \in Sids |-> 0]
    /\ gs_clients = <<>>
    /\ pollers = <<>>
    /\ emitted = <<>>

NextApp ==
    \/ \E sid \in Sids : join_game(sid) /\ UNCHANGED NotApp
    \/ \E sid \in Sids : disconnect(sid) /\ UNCHANGED NotApp
    \/ \E c \in 1..MaxJoins : client_connect(c) /\ UNCHANGED NotApp
    \/ \E i \in 1..MaxJoins : poll_check(i) /\ UNCHANGED NotApp
    \/ \E i \in 1..MaxJoins : poll_return(i) /\ UNCHANGED NotApp
    \/ \E i \in 1..MaxJoins : poll_wake(i) /\ UNCHANGED NotApp

SpecApp == InitApp /\ [][NextApp]_vars

\* every coroutine the event loop holds gets to run
PollerStep(i) ==
    (poll_check(i) \/ poll_return(i) \/ poll_wake(i)) /\ UNCHANGED NotApp
FairSpecApp ==
    SpecApp /\ \A i \in 1..MaxJoins : WF_vars(PollerStep(i))

(***************************************************************************)
(* Vocabulary of the properties.                                           *)
(***************************************************************************)
Last(seq) == seq[Len(seq)]

\* close() has returned at least once
Closed == sock = "closed"

\* data was handed to sock.send
Sent(o, data) == \E i \in DOMAIN o : o[i].data = data

IsConnectCmd(data) == StartsWith(data, MARKER \o STR_CONNECT)

ConnectSent(o) == \E i \in DOMAIN o : IsConnectCmd(o[i].data)

\* s cut at every sep, empty pieces kept
Tokens(s, sep) ==
    LET at == {i \in 1..Len(s) : s[i] = sep}
        nth(n) == IF n = 0 THEN 0
                  ELSE IF n > Cardinality(at) THEN Len(s) + 1
                  ELSE CHOOSE i \in at : Cardinality({j \in at : j <= i}) = n
    IN  [k \in 1..(Cardinality(at) + 1) |->
            SubSeq(s, nth(k - 1) + 1, nth(k) - 1)]

\* the third space-separated word of a connectionless command
ThirdWord(data) == Tokens(SliceFrom(data, 4), 32)[3]

\* the step is handle_packet(d)
HandleStep(d) == sock = "open" /\ nrecv' = nrecv + 1 /\ last_in' = d

\* the connect command is out and no network-channel packet has come yet
Connecting == ConnectSent(out) /\ ~is_connected /\ ~Closed

\* the datagrams that reached the wire
WireCount(o) == Len(SelectSeq(o, LAMBDA e : e.wire))

\* connect() ran before close() did
ConnectedBeforeClose == out # <<>> /\ out[1].sock # "closed"

\* 'new' and the three scheduled commands
JoinScript == <<CMD_NEW>> \o ScheduledCommands

\* the commands of the join script handed to sock.send so far, in order
ScriptSent(o) ==
    LET script == {JoinScript[i] : i \in DOMAIN JoinScript}
    IN  SelectSeq([i \in DOMAIN o |-> o[i].data], LAMBDA d : d \in script)

(***************************************************************************)
(* The handshake session: properties checked under Spec.                    *)
(***************************************************************************)
\* C1: a session that has sent getchallenge and then handles the S2C_CHALLENGE
\* 'A00000000 123456 ...' stores challenge = 123456 and hands exactly one
\* packet to the socket, a connect command whose challenge word is 123456.
C1_ChallengeAnswered ==
    [][ (HandleStep(PKT_CHALLENGE) /\ Sent(out, GETCHALLENGE))
        => /\ challenge' = 123456
           /\ Len(out') = Len(out) + 1
           /\ IsConnectCmd(Last(out').data)
           /\ ThirdWord(Last(out').data) = <<49, 50, 51, 52, 53, 54>> ]_vars

\* C2: once close() has returned on a session whose connect() had run, the
\* read loop and the keepalive task are not running, no scheduled command is
\* pending, and no further datagram reaches the wire.
C2_CloseCancelsAllWork ==
    [][ (ConnectedBeforeClose /\ sock' = "closed")
        => /\ read_task' # "running"
           /\ keep_alive_task' # "running"
           /\ timers' = <<>>
           /\ WireCount(out') = WireCount(out) ]_vars

\* C3: a session is connected only after it sent getchallenge, stored an
\* S2C_CHALLENGE and sent a connect command.
C3_ConnectedOnlyAfterHandshake ==
    is_connected
    => (Sent(out, GETCHALLENGE) /\ challenge_stored /\ ConnectSent(out))

\* C4 as stated: while Connecting, an inbound packet of any length that does
\* not begin with the marker connects the session, and a packet that begins
\* with the marker never does.
C4_AnyLengthConnects ==
    [][ \A d \in InboundPackets :
          HandleStep(d)
          => /\ (Connecting /\ ~StartsWith(d, MARKER)) => is_connected'
             /\ StartsWith(d, MARKER) => (is_connected' = is_connected) ]_vars

\* C4 amended: while Connecting, an inbound packet of at least 5 bytes that
\* does not begin with the marker connects the session, and a packet that
\* begins with the marker never does.
C4_FiveBytesConnect ==
    [][ \A d \in InboundPackets :
          HandleStep(d)
          => /\ (Connecting /\ Len(d) >= 5 /\ ~StartsWith(d, MARKER))
                => is_connected'
             /\ StartsWith(d, MARKER) => (is_connected' = is_connected) ]_vars

\* a session that was Connecting has just been connected by the 5-byte packet
C4_Witness ==
    /\ is_connected
    /\ last_in = PKT_NETCHAN5
    /\ ~netchan_again
    /\ ConnectSent(out)
    /\ Last(out).data = CMD_NEW

\* C5: the join script (new, jointeam, joinclass, +left) is sent in that
\* order, each command at most once, starting when the session becomes
\* connected; what is not sent yet is exactly what is still scheduled.
C5_ScriptOnceInOrder ==
    LET sent == ScriptSent(out)
    IN  /\ is_connected => sent # <<>>
        /\ IF sent = <<>> THEN timers = <<>> ELSE sent \o timers = JoinScript

\* the whole script is out and a further network-channel packet has come
C5_Witness ==
    /\ is_connected
    /\ netchan_again
    /\ ScriptSent(out) = JoinScript

\* C6: a keepalive probe is sent only after the session became connected and
\* never on a closed session, and the keepalive task is not running once the
\* session is closed.
C6_ProbeOnlyWhileConnected ==
    /\ \A i \in DOMAIN out :
          out[i].data = CMD_TIME
          => /\ out[i].sock # "closed"
             /\ \E j \in 1..(i - 1) : out[j].data = CMD_NEW
    /\ Closed => keep_alive_task # "running"

\* C7: handling an S2C_CONNREJECT closes the session, stops its tasks and
\* reports the rejection once.
C7_RejectionClosesSession ==
    [][ HandleStep(PKT_REJECT)
        => /\ sock' = "closed"
           /\ read_task' # "running"
           /\ keep_alive_task' # "running"
           /\ logs'["rejected"] = logs["rejected"] + 1 ]_vars

(***************************************************************************)
(* The info query: properties checked under SpecInfo.                       *)
(***************************************************************************)
\* the 0-based position after the string at pos0 (the buffer end if the
\* string is not terminated)
AfterString(resp, pos0) ==
    LET e == Find0(resp, pos0) IN IF e = 0 - 1 THEN Len(resp) ELSE e + 1

\* marker and the 'I' type byte
ValidHeader(resp) ==
    Len(resp) >= 5 /\ SubSeq(resp, 1, 4) = MARKER /\ resp[5] = 73

\* the 0-based position after the four strings that follow the protocol byte
StringsEnd(resp) ==
    AfterString(resp, AfterString(resp, AfterString(resp, AfterString(resp, 6))))

\* the response ends before appid, the three counts and the server type byte
\* are complete
EndsBeforeFixed(resp) == Len(resp) < StringsEnd(resp) + 6

\* the Extra Data Flags byte of a response (0 when the response ends before it)
EdfByte(resp) ==
    LET pos == AfterString(resp, StringsEnd(resp) + 9)
    IN  IF pos < Len(resp) THEN resp[pos + 1] ELSE 0

\* the flags of order that are set in edf, in that order
FlagsIn(order, edf) == SelectSeq(order, LAMBDA f : HasFlag(edf, f))

\* the call returned a full (not partial) record
FullRecord == q_result.ret = "dict" /\ "appid" \in DOMAIN q_result.dict

\* C8: query_server_info returns None, and never raises, when the request
\* times out, when the first 4 bytes are not the marker, or when the type byte
\* is not 'I'.
C8_MalformedIsUnavailable ==
    q_pc = "done"
    => /\ q_result.ret \in {"None", "dict"}
       /\ ( \/ q_event = "timeout"
            \/ /\ q_event = "data"
               /\ \/ Slice(q_resp, 0, 4) # MARKER
                  \/ Len(q_resp) < 5
                  \/ q_resp[5] # 73 )
          => q_result = RetNone

\* a 6-byte response with the marker and a wrong type byte was turned down
C8_Witness ==
    /\ q_pc = "done"
    /\ q_event = "data"
    /\ Len(q_resp) = 6
    /\ SubSeq(q_resp, 1, 4) = MARKER
    /\ q_resp[5] # 73
    /\ q_result = RetNone

\* what C9 promises of the result for response resp
PartialKept(resp) ==
    /\ q_result.ret = "dict"
    /\ q_result.dict.players = NA
    /\ q_result.dict.max_players = NA
    /\ q_result.dict.bots = NA
    /\ Find0(resp, 6) # 0 - 1
       => /\ q_result.dict.name
               = DecodeUtf8Ignore(Slice(resp, 6, Find0(resp, 6)))
          /\ Find0(resp, Find0(resp, 6) + 1) # 0 - 1
             => q_result.dict.map
                    = DecodeUtf8Ignore(Slice(resp, Find0(resp, 6) + 1,
                                             Find0(resp, Find0(resp, 6) + 1)))

C10_HighestBitFirst ==
    (q_pc = "done" /\ FullRecord)
    => q_result.consumed = FlagsIn(<<128, 64, 32, 16, 1>>, EdfByte(q_resp))

\* C10 amended: the optional fields are consumed in the order 0x80 port,
\* 0x10 SteamID, 0x40 SourceTV, 0x20 keywords, 0x01 GameID.
C10_WireOrder ==
    (q_pc = "done" /\ FullRecord)
    => q_result.consumed = FlagsIn(<<128, 16, 64, 32, 1>>, EdfByte(q_resp))

\* a response with all five optional fields was decoded, keywords included
C10_Witness ==
    /\ q_pc = "done"
    /\ q_resp = WireInfo([BaseServer EXCEPT !.edf = 241])
    /\ FullRecord
    /\ q_result.consumed = <<128, 16, 64, 32, 1>>
    /\ q_result.dict.tags = STR_KEYWORDS

\* the 0-based position of the keyword string on the wire, for a response
\* whose flags include 0x10: after the flags byte, the port if 0x80 is set,
\* the 8 SteamID bytes, and the SourceTV port and name if 0x40 is set
KeywordStart(resp) ==
    LET edfpos == AfterString(resp, StringsEnd(resp) + 9)
        p1 == edfpos + 1
              + (IF HasFlag(EdfByte(resp), 128) THEN 2 ELSE 0) + 8
    IN  IF HasFlag(EdfByte(resp), 64) THEN AfterString(resp, p1 + 2) ELSE p1

\* the 8 SteamID bytes of such a response
SteamIdBytes(resp) ==
    LET edfpos == AfterString(resp, StringsEnd(resp) + 9)
        p0 == edfpos + 1 + (IF HasFlag(EdfByte(resp), 128) THEN 2 ELSE 0)
    IN  Slice(resp, p0, p0 + 8)

\* C11: when the flags byte has both 0x20 and 0x10 set and the keyword string
\* is complete in the packet, tags is the keyword text that follows the 8
\* SteamID bytes, whatever those bytes are.
C11_KeywordsAfterSteamID ==
    (/\ q_pc = "done" /\ FullRecord
     /\ HasFlag(EdfByte(q_resp), 32) /\ HasFlag(EdfByte(q_resp), 16)
     /\ Find0(q_resp, KeywordStart(q_resp)) # 0 - 1)
    => q_result.dict.tags
         = DecodeUtf8Ignore(Slice(q_resp, KeywordStart(q_resp),
                                  Find0(q_resp, KeywordStart(q_resp))))

\* flags 0x30, a non-zero SteamID, and the tags are the keyword text
C11_Witness ==
    /\ q_pc = "done"
    /\ q_resp = WireInfo([BaseServer EXCEPT !.edf = 48])
    /\ SteamIdBytes(q_resp) = STEAMID
    /\ \A i \in 1..8 : STEAMID[i] # 0
    /\ q_result.ret = "dict"
    /\ q_result.dict.tags = STR_KEYWORDS

\* the player and max-player bytes of a response with complete fixed fields
PlayersByte(resp) == resp[StringsEnd(resp) + 3]
MaxPlayersByte(resp) == resp[StringsEnd(resp) + 4]

\* C18: for every fully decoded response free_slots is
\* max(0, max_players - players): never negative, 0 when players exceeds
\* max_players (the record is still returned), and 11 for 5 of 16.
C18_FreeSlots ==
    (q_pc = "done" /\ q_event = "data" /\ ~HeaderRejected(q_resp)
        /\ q_resp[5] = 73 /\ ~EndsBeforeFixed(q_resp))
    => LET p == PlayersByte(q_resp)
           m == MaxPlayersByte(q_resp)
       IN  /\ FullRecord
           /\ q_result.dict.players = PyInt(p)
           /\ q_result.dict.max_players = PyInt(m)
           /\ q_result.dict.free_slots >= 0
           /\ q_result.dict.free_slots = (IF p > m THEN 0 ELSE m - p)
           /\ (p = 5 /\ m = 16) => q_result.dict.free_slots = 11

\* a server that reports 16 players of 5 was decoded with no free slot
C18_Witness ==
    /\ q_pc = "done"
    /\ q_resp = WireInfo([BaseServer EXCEPT !.players = 16, !.max_players = 5])
    /\ FullRecord
    /\ q_result.dict.players = PyInt(16)
    /\ q_result.dict.free_slots = 0

(***************************************************************************)
(* The player query: properties checked under SpecPlayers.                  *)
(***************************************************************************)
\* the reply is an S2C_CHALLENGE that carries a token: marker, type 0x41 and
\* at least one byte after the type byte
YieldsChallenge(ev) ==
    /\ ev.kind = "data"
    /\ Len(ev.data) >= 6
    /\ SubSeq(ev.data, 1, 4) = MARKER
    /\ ev.data[5] = 65

\* the token of such a reply: the (up to) 4 bytes after the type byte
TokenOf(ev) == SubSeq(ev.data, 6, Min(9, Len(ev.data)))

\* the A2S_PLAYER request has been sent
PlayerRequestSent ==
    Len(p_sent) >= 2 /\ Last(p_sent) # REQ_CHALLENGE_OLD

\* C12: the first datagram sent is the 0x55 request with the 0xFFFFFFFF
\* trailer; the 0x57 request is sent, second, exactly when the first attempt
\* timed out or was answered by something that is not an S2C_CHALLENGE with a
\* token; the A2S_PLAYER request is sent last, only after a reply that is one,
\* and carries the token of that reply.
C12_ChallengeVariantsInSequence ==
    /\ p_sent # <<>> => p_sent[1] = REQ_CHALLENGE
    /\ \A i \in DOMAIN p_sent :
          /\ p_sent[i] = REQ_CHALLENGE_OLD
             => (i = 2 /\ ~YieldsChallenge(p_recv[1]))
          /\ (i > 1 /\ p_sent[i] # REQ_CHALLENGE_OLD)
             => /\ i = Len(p_sent)
                /\ YieldsChallenge(p_recv[i - 1])
                /\ \A k \in 1..(i - 2) : ~YieldsChallenge(p_recv[k])
                /\ p_sent[i] = A2S_PLAYER \o TokenOf(p_recv[i - 1])
    /\ (/\ p_sent # <<>> /\ p_recv # <<>>
        /\ p_recv[1].kind # "error" /\ ~YieldsChallenge(p_recv[1]))
       => (Len(p_sent) >= 2 /\ p_sent[2] = REQ_CHALLENGE_OLD)

\* the first attempt timed out, the legacy one gave the token that was sent
C12_Witness ==
    /\ p_recv = <<Timeout, Datagram(CH_B_LONG)>>
    /\ p_sent = <<REQ_CHALLENGE, REQ_CHALLENGE_OLD, A2S_PLAYER \o TOKEN_B>>

\* C13: the call always returns a list, and the list is empty whenever no
\* challenge was obtained (both attempts timing out included) and whenever the
\* final request timed out or was answered by a packet that is not a
\* 0x44/0x55 player list.
C13_NoPlayersIsEmptyList ==
    p_pc = "done"
    => /\ p_result.ret = "list"
       /\ ( \/ ~PlayerRequestSent
            \/ Last(p_recv) = Timeout
            \/ /\ Last(p_recv).kind = "data"
               /\ \/ Len(Last(p_recv).data) < 5
                  \/ SubSeq(Last(p_recv).data, 1, 4) # MARKER
                  \/ Last(p_recv).data[5] \notin {68, 85} )
          => p_result.list = <<>>

\* a challenge was obtained and the final reply had another type byte
C13_Witness ==
    /\ p_pc = "done"
    /\ p_recv = <<Datagram(CH_A), Datagram(PL_OTHER)>>
    /\ p_sent = <<REQ_CHALLENGE, A2S_PLAYER \o TOKEN_A>>
    /\ p_result = PlayerList(<<>>)

\* the two players of PLAYERS_BODY as the decoder must return them:
\* Bob, 7, 123.5 s = '2:03'; 'Ия', -1, 3725.2 s = '1:02:05'
BobAndIya ==
    << [index |-> 0, name |-> <<66, 111, 98>>, score |-> 7,
        time_seconds |-> [tenths |-> 1235],
        time_formatted |-> [str |-> <<50, 58, 48, 51>>], source |-> "A2S"],
       [index |-> 1, name |-> <<1048, 1103>>, score |-> 0 - 1,
        time_seconds |-> [tenths |-> 37252],
        time_formatted |-> [str |-> <<49, 58, 48, 50, 58, 48, 53>>],
        source |-> "A2S"] >>

\* the same reply with the other player-list type byte
OtherTypeByte(d) == [d EXCEPT ![5] = IF d[5] = 68 THEN 85 ELSE 68]

C15_FullFailsOnlyWithInfo ==
    f_pc = "done"
    => /\ (f_result = RetNone) <=> (f_info = RetNone)
       /\ f_info.ret = "dict"
          => /\ f_result.ret = "dict"
             /\ \A k \in DOMAIN f_info.dict :
                   f_result.dict[k] = f_info.dict[k]
             /\ f_result.dict.players_list.t = "list"
             /\ (\A i \in DOMAIN f_trace : ~Truthy(f_trace[i].value))
                => f_result.dict.players_list = PyList(<<>>)

\* the order of the sources
SourceOrder == <<"A2S", "API", "Web">>

\* C16: the sources are consulted in the order A2S query, API, web; a source
\* is consulted only after every earlier one gave the empty list; and the
\* chain returns the first non-empty result as it is, or the empty list after
\* all three gave nothing.
C16_SourcesInOrder ==
    /\ Len(f_trace) <= 3
    /\ \A i \in DOMAIN f_trace :
          /\ f_trace[i].src = SourceOrder[i]
          /\ i < Len(f_trace) => f_trace[i].value = PyList(<<>>)
    /\ f_pc \in {"api", "web"}
       => (f_trace # <<>> /\ Last(f_trace).value = PyList(<<>>))
    /\ (f_pc = "done" /\ f_info.ret = "dict")
       => /\ f_trace # <<>>
          /\ IF Truthy(Last(f_trace).value)
             THEN f_players = Last(f_trace).value
             ELSE Len(f_trace) = 3 /\ f_players = PyList(<<>>)

\* the A2S query gave nothing, the API gave a player, the web was not asked
C16_Witness ==
    /\ f_pc = "done"
    /\ Len(f_trace) = 2
    /\ f_trace[1].value = PyList(<<>>)
    /\ f_trace[2].src = "API"
    /\ Len(f_trace[2].value.v) = 1
    /\ f_players = f_trace[2].value

\* the source tag of a player record ("none" if it has none)
SourceOf(r) ==
    IF "source" \in DOMAIN r THEN r.source
    ELSE IF "t" \in DOMAIN r /\ r.t = "dict" /\ "source" \in DOMAIN r.v
    THEN r.v.source
    ELSE "none"

\* the tag each source gives its records
TagOf(src) ==
    CASE src = "A2S" -> "A2S" [] src = "API" -> "GameTracker" [] OTHER -> "Web"

\* C17: every player record the chain returns carries the source tag of the
\* source it came from, the records of the web source's JSON answers
\* included.
C17_EveryRecordTagged ==
    (f_pc = "done" /\ f_players.t = "list")
    => \A i \in DOMAIN f_players.v :
          SourceOf(f_players.v[i]) = TagOf(Last(f_trace).src)

(***************************************************************************)
(* The decoder applied twice: properties checked under SpecDecode.         *)
(***************************************************************************)
\* C19: two decodes of the same well-formed A2S_INFO response, for the same
\* host and port, return records equal in every field.
C19_DecodeTwiceEqual ==
    \A i, j \in DOMAIN d_results : d_results[i] = d_results[j]

(***************************************************************************)
(* The connect command read back: properties checked under SpecConnect.    *)
(***************************************************************************)
\* the words before the first quote, and the two quoted blocks
HeadWords(cmd) == Tokens(Tokens(cmd, 34)[1], 32)
QuotedBlock(cmd, k) ==
    LET parts == Tokens(cmd, 34)
    IN  IF Len(parts) >= 2 * k THEN parts[2 * k] ELSE <<>>

\* a block tokenized on backslash: the key/value pairs after the leading one
KeyValues(block) ==
    LET t == Tokens(block, 92)
    IN  [i \in 1..((Len(t) - 1) \div 2) |-> <<t[2 * i], t[2 * i + 1]>>]

\* what reading a command back recovers
Recovered(cmd) ==
    [proto |-> ParseInt(HeadWords(cmd)[2]),
     challenge |-> ParseInt(HeadWords(cmd)[3]),
     auth |-> KeyValues(QuotedBlock(cmd, 1)),
     user |-> KeyValues(QuotedBlock(cmd, 2))]

\* the pairs perform_connect encodes
Encoded(proto, ch, nick) ==
    [proto |-> [ok |-> TRUE, val |-> proto],
     challenge |-> [ok |-> TRUE, val |-> ch],
     auth |-> KeyValues(AUTH_INFO),
     user |-> <<<<SubSeq(USER_INFO_HEAD, 2, 5), nick>>>>
              \o KeyValues(USER_INFO_TAIL)]

\* C20: whenever a connect command has just been emitted for the stored
\* challenge, splitting it into its two quoted blocks and tokenizing each on
\* backslash recovers the protocol version, the challenge and exactly the
\* key/value pairs that were encoded, name = nickname among them.
C20_ConnectRoundTrip ==
    (out # <<>> /\ IsConnectCmd(Last(out).data))
    => Recovered(SliceFrom(Last(out).data, 4))
       = Encoded(PROTO_VERSION, challenge, nickname)

\* the same for the nicknames free of backslash and double quote
RoundTripOfPlainNickname ==
    (\A i \in DOMAIN nickname : nickname[i] \notin {34, 92})
    => C20_ConnectRoundTrip

(***************************************************************************)
(* The handshake session, continued: properties checked under Spec.        *)
(***************************************************************************)
\* C23: once close() has been called, no later step starts the read loop or
\* the keepalive task, connects the session or puts a datagram on the wire,
\* whether close() came before connect() or was called again.
C23_ClosedIsTerminal ==
    [][ Closed
        => /\ read_task' = "running" => read_task = "running"
           /\ keep_alive_task' = "running" => keep_alive_task = "running"
           /\ is_connected' => is_connected
           /\ WireCount(out') = WireCount(out)
           /\ sock' = "closed" ]_vars

\* the connect commands handed to sock.send so far
ConnectCount(o) == Len(SelectSeq(o, LAMBDA e : IsConnectCmd(e.data)))

\* getchallenge is out and no connect command has followed it yet
ChallengeRequested ==
    Sent(out, GETCHALLENGE) /\ ~ConnectSent(out) /\ ~is_connected /\ ~Closed

\* an S2C_CHALLENGE datagram
IsChallengePacket(d) == Len(d) >= 5 /\ StartsWith(d, MARKER) /\ d[5] = 65

\* C24: a connect command is emitted only by handling an S2C_CHALLENGE while
\* the session is in ChallengeRequested; an S2C_CHALLENGE handled in any
\* later state emits no connect command and leaves the challenge as it was.
C24_ConnectOnlyWhenRequested ==
    [][ /\ ConnectCount(out') > ConnectCount(out)
           => (ChallengeRequested /\ IsChallengePacket(last_in'))
        /\ \A d \in InboundPackets :
              (HandleStep(d) /\ IsChallengePacket(d) /\ ~ChallengeRequested)
              => /\ ConnectCount(out') = ConnectCount(out)
                 /\ challenge' = challenge ]_vars

\* C25: a step that logs a send or receive failure of the socket leaves the
\* session closed and its read loop stopped.
C25_SocketFailureCloses ==
    [][ (\/ logs'["read_error"] > logs["read_error"]
         \/ logs'["send_error"] > logs["send_error"])
        => (sock' = "closed" /\ read_task' # "running") ]_vars

\* C28: handling an S2C_CHALLENGE that has no second token, or whose second
\* token is not a decimal integer, emits nothing and leaves the challenge, the
\* connected flag, the socket, the timers and both tasks as they were, the
\* read loop still running.
C28_MalformedChallengeIgnored ==
    [][ \A d \in {PKT_CHALLENGE_NOTOKEN, PKT_CHALLENGE_BADINT} :
          HandleStep(d)
          => /\ UNCHANGED <<out, challenge, challenge_stored, is_connected,
                            connection_step, sock, timers, read_task,
                            keep_alive_task>>
             /\ read_task' = "running" ]_vars

\* a malformed challenge was logged and the next, well-formed one was answered
C28_Witness ==
    /\ nickname = NICK_ASCII
    /\ logs["challenge_error"] = 1
    /\ last_in = PKT_CHALLENGE
    /\ challenge = 123456
    /\ ConnectCount(out) = 1
    /\ read_task = "running"

(***************************************************************************)
(* The player query, continued: properties checked under SpecPlayers.      *)
(***************************************************************************)
\* C26: the A2S_PLAYER request, when sent, carries a token of exactly 4
\* bytes, and a 0x41 reply with fewer than 4 token bytes is not used as a
\* challenge.
C26_TokenIsFourBytes ==
    /\ PlayerRequestSent => Len(Last(p_sent)) = Len(A2S_PLAYER) + 4
    /\ \A i \in DOMAIN p_recv :
          (/\ p_recv[i].kind = "data"
           /\ IsChallenge(p_recv[i].data)
           /\ Len(p_recv[i].data) < 9
           /\ i + 1 \in DOMAIN p_sent)
          => p_sent[i + 1] = REQ_CHALLENGE_OLD

(***************************************************************************)
(* read_string inside the decoder: a property checked under SpecInfo.      *)
(***************************************************************************)
\* C27: when no 0x00 byte follows the protocol byte, the first read_string
\* returns the bytes from its position to the end of the buffer as the
\* server name and leaves the position at the end, so that the map read
\* after it is empty; the call does not raise.
C27_UnterminatedReadsToEnd ==
    (/\ q_pc = "done" /\ q_event = "data"
     /\ ValidHeader(q_resp) /\ Len(q_resp) >= 6
     /\ Find0(q_resp, 6) = 0 - 1)
    => /\ q_result.ret = "dict"
       /\ q_result.dict.name
            = DecodeUtf8Ignore(Slice(q_resp, 6, Len(q_resp)))
       /\ q_result.dict.map = <<>>

(***************************************************************************)
(* The web application: properties checked under SpecApp and FairSpecApp.  *)
(***************************************************************************)
\* poller i comes back from query_server_full in this step
ReturnStep(i) ==
    /\ i \in DOMAIN pollers
    /\ pollers[i].pc = "query"
    /\ pollers'[i].pc = "sleep"

\* C21: a pass whose query_server_full gave None or raised emits nothing and
\* leaves the poller running, so that it goes on to its next pass; a pass
\* whose query_server_full gave a record emits server_info with the record
\* and then player_list_update with one entry for each player of the record.
C21_PollerPublishes ==
    [][ \A i \in 1..MaxJoins :
          ReturnStep(i)
          => LET data == pollers'[i].data
             IN  IF data.ret # "dict"
                 THEN emitted' = emitted
                 ELSE /\ Len(emitted') >= 2
                      /\ emitted'[1].by = i
                      /\ emitted'[1].pass = pollers[i].ticks
                      /\ emitted'[1].event = "server_info"
                      /\ emitted'[1].payload = PyDict(data.dict)
                      /\ emitted'[2].event = "player_list_update"
                      /\ Len(emitted'[2].payload.v)
                           = Len(data.dict.players_list.v) ]_vars

\* the poller of a session that is no longer in the registry
Orphaned(i) ==
    i \in DOMAIN pollers /\ ~Registered(pollers[i].sid, clients)

Stopped(i) == i \in DOMAIN pollers /\ pollers[i].pc = "stopped"

\* C22: a poller does not stop while its session is in the registry, and
\* once the session has been removed from it the poller eventually stops
\* for good.
C22_PollerStopsAfterRemoval ==
    /\ [](\A i \in 1..MaxJoins : Stopped(i) => Orphaned(i))
    /\ \A i \in 1..MaxJoins : [](Orphaned(i) => <>[]Stopped(i))

\* a poller that made a pass has stopped after its session was removed
C22_Witness ==
    \E i \in DOMAIN pollers :
        /\ pollers[i].pc = "stopped"
        /\ pollers[i].ticks >= 1
        /\ pollers[i].sid \notin sio_sids
        /\ ~Registered(pollers[i].sid, clients)

\* a GoldSrcClient that still holds its socket or a running task
Live(c) ==
    \/ gs_clients[c].sock = "open"
    \/ gs_clients[c].read_task = "running"
    \/ gs_clients[c].keep_alive_task = "running"

\* C29: every session identifier has at most one live GoldSrcClient and at
\* most one poller that has not stopped.
C29_OneMachinePerSession ==
    \A sid \in Sids :
        /\ Cardinality({c \in DOMAIN gs_clients :
                           gs_clients[c].sid = sid /\ Live(c)}) <= 1
        /\ Cardinality({i \in DOMAIN pollers :
                           pollers[i].sid = sid /\ ~Stopped(i)}) <= 1

\* C30: whatever a step emits goes to a session that is in the registry.
C30_NoPublishAfterRemoval ==
    [][ emitted' # emitted
        => \A k \in DOMAIN emitted' :
              Registered(emitted'[k].sid, clients') ]_vars

(***************************************************************************)
(* The sockets of the queries: a property checked under SpecPlayers and    *)
(* under SpecInfo.                                                         *)
(***************************************************************************)
\* C31: when query_server_info or query_server_players_a2s has returned, the
\* socket the call opened has been closed, whatever the path: a result, a
\* timeout, a malformed reply or any other exception.
C31_QuerySocketsClosed ==
    /\ q_pc = "done" => q_sock = "closed"
    /\ p_pc = "done" => p_sock = "closed"

\* the same for the paths that reach the sock.close() after the last reply
SocketClosedWhereCloseIsReached ==
    /\ (q_pc = "done" /\ q_event = "data") => q_sock = "closed"
    /\ (/\ p_pc = "done" /\ p_recv # <<>>
        /\ Last(p_recv).kind # "error"
        /\ ~(PlayerRequestSent /\ Last(p_recv).kind = "data"
             /\ AcceptsFinal(Last(p_recv).data)))
       => p_sock = "closed"

====
